---------------------------- MODULE Spec2Model ----------------------------
(***************************************************************************)
(* Process supervision and event bridging of the GMB scraper API.          *)
(*                                                                         *)
(*   src/src/services/scraper.ts  ScraperService.stream (the bridge: an    *)
(*                                async generator over the worker's        *)
(*                                stdout lines) and ScraperService.scrape  *)
(*                                (the aggregating drain)                  *)
(*   src/src/routes/scrape.ts     the three handlers (GET /stream,         *)
(*                                POST /, POST /webhook) and the jobStore  *)
(*                                                                         *)
(* Node runs every callback and every stretch of code between two awaits   *)
(* to completion, so each action below is one such stretch.  The worker    *)
(* (line and signal callbacks), the heartbeat timer and the transport are  *)
(* the environment: their callbacks may run between any two stretches.     *)
(***************************************************************************)
EXTENDS Naturals, Sequences, FiniteSets

VARIABLES
    \* ---- worker process handle (child_process) ----
    proc,          \* "unspawned" | "alive" | "spawnfail" (spawn failed, ENOENT)
    sigs,          \* terminal signals fired so far, a subset of {"error","close"}
    arrived,       \* history: every stdout line delivered to rl.on('line')
    \* ---- ScraperService.stream locals ----
    eventQueue,    \* const eventQueue: SSEEvent[]
    resolveNext,   \* TRUE iff the callback resolveNext is not null
    promise,       \* the promise the generator awaits (scraper.ts:116)
    isDone,        \* let isDone
    gpc,           \* where the generator body is suspended
    cur,           \* the IteratorResult handed to the consumer, not yet processed
    out,           \* history: the events yielded by stream(), in order
    via,           \* history: for each yielded event, the yield that produced it
    \* ---- ScraperService fields ----
    isRunning,     \* this.isRunning
    svcBusinesses, \* this.businesses
    svcStats,      \* this.stats
    svcProcess,    \* TRUE iff this.process is not null
    kills,         \* history: the SIGTERMs sent with this.process.kill
    spawns,        \* history: the calls of spawn() made
    \* ---- consumer of the bridge ----
    hpc,           \* position of the code that iterates stream()
    \* ---- routes/scrape.ts: one request and the registry ----
    mode,          \* the route taken: "stream" | "sync" | "webhook"
    req,           \* what the request carried: query parameters or JSON body
    auth,          \* apiKeyAuth: the configured keys, what the request carried, the verdict
    lookup,        \* GET /:jobId: the last lookup and its answer
    jobId,         \* const jobId = uuidv4()
    jobStore,      \* const jobStore: Map from job id to record
    response,      \* the JSON response returned to the client
    \* ---- ScraperService.scrape locals ----
    scBusinesses,  \* const businesses
    scStats,       \* let stats
    scError,       \* let error
    \* ---- POST /webhook background task ----
    webhookCalls,  \* history: the fetch(webhook_url) calls made, in order
    \* ---- GET /stream callback ----
    hBusinesses,   \* const businesses
    isComplete,    \* let isComplete
    heartbeatInterval, \* TRUE while the interval timer is set
    frames,        \* history: the SSE frames the transport accepted
    connected,     \* the client is still connected
    wres,          \* outcome of the write the callback is awaiting
    hbFail,        \* a heartbeat write was rejected, its catch has not run yet
    ticks          \* timer callbacks run so far

bridgeVars == <<proc, sigs, arrived, eventQueue, resolveNext, promise, isDone,
                gpc, cur, out, via, isRunning, svcBusinesses, svcStats,
                svcProcess, kills, spawns>>
scrapeVars == <<scBusinesses, scStats, scError>>
streamVars == <<hBusinesses, isComplete, heartbeatInterval, frames, connected,
                wres, hbFail, ticks>>
adapterVars == <<mode, req, auth, lookup, jobId, jobStore, response, scrapeVars, webhookCalls,
                 streamVars>>
vars == <<bridgeVars, hpc, adapterVars>>

-----------------------------------------------------------------------------
(* Bounds *)

\* Number of stdout lines the worker writes before it exits.
MaxLines == 3

\* Number of heartbeat timer callbacks that run during one streaming request.
MaxTicks == 2

-----------------------------------------------------------------------------
(* Stdout lines and events *)

None == "none"

\* One stdout line.  kind is what JSON.parse makes of the text:
\*   "notjson"  the text is not JSON, JSON.parse throws
\*   "null"     the text is the JSON literal null
\*   "json"     any other JSON value; type is its `type` member, None when it
\*              has none (as for {} or 42)
\* ts stands for the line's timestamp member and tells lines apart.
\* declared tells whether the `businesses` member is present.
MkLine(kind, type, data, message, stats, declared, businesses, ts) ==
    [kind |-> kind, type |-> type, data |-> data, message |-> message,
     stats |-> stats, declared |-> declared, businesses |-> businesses,
     ts |-> ts]

NoEvent == MkLine(None, None, None, None, None, FALSE, <<>>, 0)

NotJsonLine(ts)     == MkLine("notjson", None, None, None, None, FALSE, <<>>, ts)
NullLine(ts)        == MkLine("null", None, None, None, None, FALSE, <<>>, ts)
NoTypeLine(ts)      == MkLine("json", None, None, None, None, FALSE, <<>>, ts)
ProgressLine(ts)    == MkLine("json", "progress", None, None, None, FALSE, <<>>, ts)
BusinessLine(d, ts) == MkLine("json", "business", d, None, None, FALSE, <<>>, ts)
ErrorLine(m, ts)    == MkLine("json", "error", None, m, None, FALSE, <<>>, ts)
CompleteLine(s, declared, list, ts) ==
    MkLine("json", "complete", None, None, s, declared, list, ts)

\* The lines a worker may write as its ts-th line.
WorkerLines(ts) ==
    { NotJsonLine(ts), NullLine(ts), NoTypeLine(ts), ProgressLine(ts),
      BusinessLine("A", ts), CompleteLine("S", FALSE, <<>>, ts),
      ErrorLine("boom", ts) }

\* The lines the handlers tell apart: the Events of the worker's protocol that
\* they act on, and text that is not JSON.
EventLines(ts) ==
    { NotJsonLine(ts), BusinessLine("A", ts), CompleteLine("S", FALSE, <<>>, ts),
      ErrorLine("boom", ts) }

\* The Events among them: what the bridge hands on to a handler.
ProtocolLines(ts) == EventLines(ts) \ {NotJsonLine(ts)}

\* The Events the streaming handler tells apart: a business, an error, and a
\* complete event that declares a business list (with a business, or empty)
\* or declares none.
StreamLines(ts) ==
    { BusinessLine("A", ts), ErrorLine("boom", ts),
      CompleteLine("S", TRUE, <<"B">>, ts), CompleteLine("S", TRUE, <<>>, ts),
      CompleteLine("S", FALSE, <<>>, ts) }

\* The Events scrape() tells apart: two businesses, a complete event whose
\* list repeats them or is empty, an error event with a message and one
\* whose message is the empty string.
ScrapeLines(ts) ==
    { BusinessLine("A", ts), BusinessLine("B", ts),
      CompleteLine("S", TRUE, <<"A", "B">>, ts), CompleteLine("S", TRUE, <<>>, ts),
      ErrorLine("boom", ts), ErrorLine("", ts) }

\* The terminal Events: an error event and a complete event.
TerminalLines(ts) ==
    { ErrorLine("boom", ts), CompleteLine("S", TRUE, <<>>, ts) }

\* JSON.parse(line) throws.
ParseThrows(l) == l.kind = "notjson"

\* The try block of the line handler throws: JSON.parse throws, or it returns
\* null and reading `event.type` throws a TypeError.
HandlerThrows(l) == ParseThrows(l) \/ l.kind = "null"

\* IteratorResult / promise values
Rnone     == [st |-> "none",    v |-> NoEvent]
Rpending  == [st |-> "pending", v |-> NoEvent]
Rvalue(e) == [st |-> "value",   v |-> e]
Rend      == [st |-> "end",     v |-> NoEvent]
Rthrow    == [st |-> "throw",   v |-> NoEvent]

-----------------------------------------------------------------------------
(* ScraperService.stream: the generator body *)

\* Mutant of QueuePush: the event is put at the head (unshift for push).
QueuePush_Unshift(q, e) == <<e>> \o q

\* eventQueue.push(event)
QueuePush(q, e) == Append(q, e)

\* `yield e`: the generator suspends at the yield `at`, the consumer gets e.
Yield(e, at, how) ==
    /\ gpc' = at
    /\ cur' = Rvalue(e)
    /\ out' = Append(out, e)
    /\ via' = Append(via, how)

\* Mutant of DrainTop: the body ends without the loop of lines 136-138.
DrainTop_NoDrain ==
    /\ gpc' = "done"
    /\ cur' = Rend
    /\ UNCHANGED <<eventQueue, out, via>>

\* scraper.ts:135-139: the loop after the main loop, then the end of the body.
DrainTop ==
    IF eventQueue # <<>>
    THEN /\ Yield(Head(eventQueue), "yieldDrain", "drain")
         /\ eventQueue' = Tail(eventQueue)
    ELSE /\ gpc' = "done"
         /\ cur' = Rend
         /\ UNCHANGED <<eventQueue, out, via>>

\* Mutant of LoopTop: an empty buffer ends the sequence instead of waiting.
LoopTop_EndOnEmpty(done) ==
    IF ~done /\ eventQueue # <<>>
    THEN /\ Yield(Head(eventQueue), "yieldLoop", "buffer")
         /\ eventQueue' = Tail(eventQueue)
         /\ UNCHANGED <<resolveNext, promise>>
    ELSE /\ DrainTop
         /\ UNCHANGED <<resolveNext, promise>>

\* scraper.ts:112-128: the main loop from its test to the next suspension.
LoopTop(done) ==
    IF ~done
    THEN IF eventQueue # <<>>
         THEN /\ Yield(Head(eventQueue), "yieldLoop", "buffer")
              /\ eventQueue' = Tail(eventQueue)
              /\ UNCHANGED <<resolveNext, promise>>
         ELSE \* new Promise(executor): the executor runs at once
              /\ IF done
                 THEN promise' = Rend /\ UNCHANGED resolveNext
                 ELSE promise' = Rpending /\ resolveNext' = TRUE
              /\ gpc' = "await"
              /\ UNCHANGED <<eventQueue, cur, out, via>>
    ELSE /\ DrainTop
         /\ UNCHANGED <<resolveNext, promise>>

\* The consumer may call next(): it holds no unprocessed result.
ConsumerPulls == cur.st = "none" /\ hpc \in {"free", "pull"}

\* scraper.ts:41-112: the first next() runs the body from its start.
\* spawn() either starts the worker, or fails to launch it and reports that
\* later through 'error', or throws.
StartStream ==
    /\ ConsumerPulls
    /\ gpc = "init"
    /\ \E o \in {"alive", "spawnfail", "throw"} :
         IF o = "throw"
         THEN /\ gpc' = "done"
              /\ cur' = Rthrow
              /\ UNCHANGED <<proc, isRunning, svcBusinesses, svcStats,
                             eventQueue, resolveNext, promise, out, via,
                             svcProcess, kills>>
              /\ spawns' = spawns + 1
         ELSE /\ proc' = o
              /\ svcProcess' = TRUE
              /\ kills' = kills
              /\ spawns' = spawns + 1
              /\ isRunning' = TRUE
              /\ svcBusinesses' = <<>>
              /\ svcStats' = None
              /\ LoopTop(isDone)
    /\ UNCHANGED <<sigs, arrived, isDone, hpc, adapterVars>>

\* A later next(): the body goes on after the yield it is suspended at.
Pull ==
    /\ ConsumerPulls
    /\ gpc \in {"yieldLoop", "yieldDrain"}
    /\ IF gpc = "yieldLoop"
       THEN LoopTop(isDone)
       ELSE DrainTop /\ UNCHANGED <<resolveNext, promise>>
    /\ UNCHANGED <<proc, sigs, arrived, isDone, isRunning, svcBusinesses,
                   svcStats, hpc, adapterVars, svcProcess, kills, spawns>>

\* scraper.ts:130-131: the awaited promise is settled, the body goes on.
Resume ==
    /\ gpc = "await"
    /\ promise.st \in {"value", "end"}
    /\ IF promise.st = "end"
       THEN DrainTop
       ELSE Yield(promise.v, "yieldLoop", "handoff") /\ UNCHANGED eventQueue
    /\ promise' = Rnone
    /\ UNCHANGED <<proc, sigs, arrived, resolveNext, isDone, isRunning,
                   svcBusinesses, svcStats, hpc, adapterVars,
                   svcProcess, kills, spawns>>

-----------------------------------------------------------------------------
(* The worker's callbacks *)

\* Mutant of LineHandler: an event handed to the waiter is queued as well.
LineHandler_AlsoQueues(l) ==
    /\ arrived' = Append(arrived, l)
    /\ IF HandlerThrows(l)
       THEN UNCHANGED <<svcBusinesses, svcStats, resolveNext, promise, eventQueue>>
       ELSE /\ svcBusinesses' = IF l.type = "business" /\ l.data # None
                                THEN Append(svcBusinesses, l.data)
                                ELSE svcBusinesses
            /\ svcStats' = IF l.type = "complete" /\ l.stats # None
                           THEN l.stats ELSE svcStats
            /\ IF resolveNext
               THEN /\ promise' = Rvalue(l)
                    /\ resolveNext' = FALSE
                    /\ eventQueue' = QueuePush(eventQueue, l)
               ELSE /\ eventQueue' = QueuePush(eventQueue, l)
                    /\ UNCHANGED <<resolveNext, promise>>

\* scraper.ts:76-97: rl.on('line', ...)
LineHandler(l) ==
    /\ arrived' = Append(arrived, l)
    /\ IF HandlerThrows(l)
       THEN UNCHANGED <<svcBusinesses, svcStats, resolveNext, promise, eventQueue>>
       ELSE /\ svcBusinesses' = IF l.type = "business" /\ l.data # None
                                THEN Append(svcBusinesses, l.data)
                                ELSE svcBusinesses
            /\ svcStats' = IF l.type = "complete" /\ l.stats # None
                           THEN l.stats ELSE svcStats
            /\ IF resolveNext
               THEN /\ promise' = Rvalue(l)
                    /\ resolveNext' = FALSE
                    /\ UNCHANGED eventQueue
               ELSE /\ eventQueue' = QueuePush(eventQueue, l)
                    /\ UNCHANGED <<resolveNext, promise>>

\* The worker writes one more line, one of the set S; readline delivers it
\* before 'close'.
WorkerWrites(S) ==
    /\ proc = "alive"
    /\ "close" \notin sigs
    /\ Len(arrived) < MaxLines
    /\ \E l \in S : LineHandler(l)
    /\ UNCHANGED <<proc, sigs, isDone, gpc, cur, out, via, isRunning, svcProcess,
                   kills, spawns, hpc, adapterVars>>

\* Any line: text that is not JSON, JSON that is no Event, or an Event.
Line == WorkerWrites(WorkerLines(Len(arrived) + 1))

\* A line of the worker's protocol, or text that is not JSON.
EventLine == WorkerWrites(EventLines(Len(arrived) + 1))

\* An Event of the worker's protocol.
ProtocolLine == WorkerWrites(ProtocolLines(Len(arrived) + 1))

\* An Event as the streaming handler tells them apart.
StreamLine == WorkerWrites(StreamLines(Len(arrived) + 1))

\* A terminal Event.
TerminalLine == WorkerWrites(TerminalLines(Len(arrived) + 1))

\* An Event as scrape() tells them apart.
ScrapeLine == WorkerWrites(ScrapeLines(Len(arrived) + 1))

\* Mutant of cleanup: the waiting consumer is not resolved.
cleanup_NoWake ==
    /\ isDone' = TRUE
    /\ isRunning' = FALSE
    /\ UNCHANGED <<resolveNext, promise>>

\* scraper.ts:99-106: const cleanup
cleanup ==
    /\ isDone' = TRUE
    /\ isRunning' = FALSE
    /\ IF resolveNext
       THEN promise' = Rend /\ resolveNext' = FALSE
       ELSE UNCHANGED <<resolveNext, promise>>

\* The fields of the service stop() reads and writes, and the SIGTERMs sent.
ServiceState == [process |-> svcProcess, isRunning |-> isRunning, kills |-> kills]

\* Mutant of stopped: the handle is kept after the SIGTERM.
stopped_KeepsHandle(s) ==
    [process |-> s.process, isRunning |-> FALSE,
     kills |-> IF s.process THEN s.kills + 1 ELSE s.kills]

\* scraper.ts:184-190: the service after stop().  It sends SIGTERM to the
\* worker if the service holds a handle, and forgets the handle.
stopped(s) ==
    [process |-> FALSE, isRunning |-> FALSE,
     kills |-> IF s.process THEN s.kills + 1 ELSE s.kills]

\* scraper.ts:184-190: stop()
stop ==
    /\ svcProcess' = stopped(ServiceState).process
    /\ isRunning' = stopped(ServiceState).isRunning
    /\ kills' = stopped(ServiceState).kills

\* Mutant of Signal: after a failed launch the worker is spawned again.
Signal_Retries ==
    /\ \E s \in {"error", "close"} :
         /\ s \notin sigs
         /\ "close" \notin sigs
         /\ IF s = "error" THEN proc = "spawnfail"
            ELSE proc = "alive" \/ (proc = "spawnfail" /\ "error" \in sigs)
         /\ sigs' = sigs \cup {s}
    /\ cleanup
    /\ IF proc = "spawnfail"
       THEN proc' = "alive" /\ spawns' = spawns + 1
       ELSE UNCHANGED <<proc, spawns>>
    /\ UNCHANGED <<arrived, eventQueue, gpc, cur, out, via,
                   svcBusinesses, svcStats, hpc, adapterVars,
                   svcProcess, kills>>

\* scraper.ts:108-109: the process handle fires 'error' (only when the launch
\* failed) and 'close' (once, after stdout has ended).
Signal ==
    /\ \E s \in {"error", "close"} :
         /\ s \notin sigs
         /\ "close" \notin sigs
         /\ IF s = "error" THEN proc = "spawnfail"
            ELSE proc = "alive" \/ (proc = "spawnfail" /\ "error" \in sigs)
         /\ sigs' = sigs \cup {s}
    /\ cleanup
    /\ UNCHANGED <<proc, arrived, eventQueue, gpc, cur, out, via,
                   svcBusinesses, svcStats, hpc, adapterVars,
                   svcProcess, kills, spawns>>

-----------------------------------------------------------------------------
(* routes/scrape.ts: the registry and the values the handlers build *)

\* The id uuidv4() returns for the request.
JobIds == {"job-1"}

NoResult == [present |-> FALSE, stats |-> None, businesses |-> <<>>]
\* scrape.ts:200-205, 283-288, 120-125: a ScrapeResult
MkResult(stats, businesses) ==
    [present |-> TRUE, stats |-> stats, businesses |-> businesses]

\* The records the handlers store.  startedAt is the time of the request,
\* completedAt is unset or the time of the write ("t1").
RunningRec == [status |-> "running", result |-> NoResult, error |-> None,
               startedAt |-> "t0", completedAt |-> None]
\* Mutant of CompletedRec: the record is stamped anew instead of keeping the
\* time the job was created.
CompletedRec_Restamped(old, res) ==
    [status |-> "completed", result |-> res, error |-> None,
     startedAt |-> "t1", completedAt |-> "t1"]
CompletedRec(old, res) ==
    [status |-> "completed", result |-> res, error |-> None,
     startedAt |-> old.startedAt, completedAt |-> "t1"]
ErrorRec(old, msg) ==
    [status |-> "error", result |-> NoResult, error |-> msg,
     startedAt |-> old.startedAt, completedAt |-> "t1"]

\* Mutant of JobSet: the write replaces every record of the registry.
JobSet_Clobber(store, id, rec) ==
    [j \in DOMAIN store \cup {id} |-> rec]

\* jobStore.set(id, rec)
JobSet(store, id, rec) ==
    [j \in DOMAIN store \cup {id} |-> IF j = id THEN rec ELSE store[j]]

EmptyStore == [j \in {} |-> RunningRec]

NoResponse == [code |-> 0, success |-> FALSE, error |-> None, job_id |-> None,
               stats |-> None, businesses |-> <<>>]
\* scrape.ts:214-222; scrapeResult.job_id is jobId (scrape.ts:200-201)
OkResponse(res) == [code |-> 200, success |-> TRUE, error |-> None,
                    job_id |-> jobId,
                    stats |-> res.stats, businesses |-> res.businesses]
\* scrape.ts:233-237
FailResponse(msg) == [code |-> 500, success |-> FALSE, error |-> msg,
                      job_id |-> None,
                      stats |-> None, businesses |-> <<>>]
\* scrape.ts:342-348
AckResponse(id) == [code |-> 200, success |-> TRUE, error |-> None,
                    job_id |-> id,
                    stats |-> None, businesses |-> <<>>]

\* The message of the exception a failing spawn() throws, and of the
\* rejection of fetch() on a network error.
SpawnMsg == "spawn failed"
FetchMsg == "fetch failed"

\* scrape.ts:300-310 and 327-334: the body posted to webhook_url
OkPayload(res) == [success |-> TRUE, error |-> None, stats |-> res.stats,
                   businesses |-> res.businesses]
FailPayload(msg) == [success |-> FALSE, error |-> msg, stats |-> None,
                     businesses |-> <<>>]

\* scrape.ts:29-31 and 80: the frame written for an event
formatSSE(event, data) == [event |-> event, data |-> data]
\* scrape.ts:98: the frame of { job_id: jobId }
JobFrame(id) ==
    formatSSE("job", MkLine("json", "job", id, None, None, FALSE, <<>>, 0))
PingFrame  == formatSSE("ping", NoEvent)
ErrorFrame(msg) ==
    formatSSE("error", MkLine("json", "error", None, msg, None, FALSE, <<>>, 0))

-----------------------------------------------------------------------------
(* The request's parameters and their validation *)

\* A text parameter as c.req.query(name) or the JSON body gives it: missing,
\* or a string (its characters).
Absent     == [given |-> FALSE, text |-> <<>>]
Given(t)   == [given |-> TRUE, text |-> t]
TextInputs == {Absent, Given(<<>>), Given(<<"p">>), Given(<<"p", "a">>)}

\* grid_size as received: missing, the empty string, the decimal text of an
\* integer n (or that number), of a number with a fraction (n its integer
\* part), or text that is no number.
GridAbsent  == [kind |-> "absent", n |-> 0]
GridBlank   == [kind |-> "blank", n |-> 0]
GridInt(n)  == [kind |-> "int", n |-> n]
GridFrac(n) == [kind |-> "frac", n |-> n]
GridText    == [kind |-> "text", n |-> 0]

\* scrape.ts:37, 164, 245: GET /stream, POST / and POST /webhook
Routes == {"stream", "sync", "webhook"}

\* webhook_url as received: missing, a string that is no URL, or a URL.
UrlInputs(m) == IF m = "webhook" THEN {"absent", "text", "url"} ELSE {"absent"}

NoRequest == [activity |-> Absent, city |-> Absent, grid_size |-> GridAbsent,
              webhook_url |-> "none"]

\* scraper.ts:210-212 and scrape.ts:13-15: the limits of the schemas
MinLength   == 2
GridMin     == 1
GridMax     == 55
GridDefault == 4
\* scrape.ts:40: the text GET /stream puts in place of a missing grid_size
QueryDefault == 4

GridInputs == {GridAbsent, GridBlank, GridText, GridFrac(GridMin + 1),
               GridInt(GridMin - 1), GridInt(GridMin), GridInt(GridMax),
               GridInt(GridMax + 1)}

\* The requests a client can send on route m.
AllRequests(m) ==
    [activity : TextInputs, city : TextInputs, grid_size : GridInputs,
     webhook_url : UrlInputs(m)]

\* A request with every parameter in order and grid_size left out.
TypicalRequests(m) ==
    {[activity |-> Given(<<"p", "a">>), city |-> Given(<<"p", "a">>),
      grid_size |-> GridAbsent,
      webhook_url |-> IF m = "webhook" THEN "url" ELSE "absent"]}

\* z.string().min(2)
StringMin(p) == p.given /\ Len(p.text) >= MinLength

\* z.string().url()
StringUrl(u) == u = "url"

\* The outcome of parsing one field: whether it passed, and its value.
Passed(v) == [ok |-> TRUE, value |-> v]
Failed    == [ok |-> FALSE, value |-> 0]

\* Number(value), as z.coerce.number() applies it: the empty string gives 0,
\* text that is no number gives NaN (here: stays text).
Number(g) == IF g.kind = "blank" THEN GridInt(0) ELSE g

\* Mutant of GridSizeSchema: the lower limit is not checked.
GridSizeSchema_NoMin(g) ==
    IF g.kind = "absent" THEN Passed(GridDefault)
    ELSE LET x == Number(g) IN
         IF x.kind = "int" /\ x.n <= GridMax THEN Passed(x.n) ELSE Failed

\* z.coerce.number().int().min(1).max(55).default(4): a missing value becomes
\* the default; any other is turned into a number, which must be an integer
\* within the limits.
GridSizeSchema(g) ==
    IF g.kind = "absent" THEN Passed(GridDefault)
    ELSE LET x == Number(g) IN
         IF x.kind = "int" /\ GridMin <= x.n /\ x.n <= GridMax
         THEN Passed(x.n) ELSE Failed

\* scrape.ts:40: c.req.query('grid_size') || '4'
QueryGridSize(g) ==
    IF g.kind \in {"absent", "blank"} THEN GridInt(QueryDefault) ELSE g

\* scraper.ts:209-213: ScrapeQuerySchema.safeParse
ScrapeQuerySchema(r) ==
    LET g == GridSizeSchema(r.grid_size) IN
    [success |-> StringMin(r.activity) /\ StringMin(r.city) /\ g.ok,
     grid_size |-> g.value]

\* scrape.ts:12-17: WebhookScrapeSchema.safeParse
WebhookScrapeSchema(r) ==
    LET q == ScrapeQuerySchema(r) IN
    [success |-> q.success /\ StringUrl(r.webhook_url), grid_size |-> q.grid_size]

\* scrape.ts:38-46, 165-167, 246-248: the validation each route runs
Validation(m, r) ==
    CASE m = "stream"  ->
            ScrapeQuerySchema([r EXCEPT !.grid_size = QueryGridSize(r.grid_size)])
      [] m = "sync"    -> ScrapeQuerySchema(r)
      [] m = "webhook" -> WebhookScrapeSchema(r)

\* scrape.ts:49-54, 170-180, 251-262
BadRequest == [code |-> 400, success |-> FALSE, error |-> "Paramètres invalides",
               job_id |-> None, stats |-> None, businesses |-> <<>>]

-----------------------------------------------------------------------------
(* middleware/auth.ts and config.getApiKeys *)

\* The entries of API_KEYS between its commas, as written in the environment:
\* a key, a key with blanks around it, blanks only, or nothing.
EnvEntries == {"k1", " k1 ", "k2", " ", ""}

\* String.prototype.trim on an entry.
Trim(t) == IF t = " k1 " THEN "k1" ELSE IF t = " " THEN "" ELSE t

\* The values of API_KEYS: unset or empty, blank, one key, two keys, and
\* lists with an empty or a padded entry.
EnvInputs ==
    { <<>>, <<" ">>, <<"k1">>, <<"k1", "k2">>, <<"k1", "", "k2">>, <<" k1 ">>,
      <<"", " ">> }

\* config.getApiKeys: split(','), trim each entry, drop the empty ones.  An
\* environment value that is empty after trim gives no key.
getApiKeys(env) ==
    LET trimmed == [i \in 1..Len(env) |-> Trim(env[i])] IN
    SelectSeq(trimmed, LAMBDA k : k # "")

\* apiKeys.includes(k)
Includes(keys, k) == \E i \in 1..Len(keys) : keys[i] = k

\* What a request can carry: a header or query value is absent (None) or a
\* string; Authorization is absent or a scheme and what follows it.
KeyValues == {None, "", "k1", "k2", "bad"}
NoAuthorization == [scheme |-> None, rest |-> None]
Authorizations ==
    {NoAuthorization} \cup
    [scheme : {"Bearer", "Basic"}, rest : {"k1", "bad"}]
Credentials ==
    [xApiKey : KeyValues, authorization : Authorizations, api_key : KeyValues]

\* auth.ts:30-32: authHeader?.startsWith('Bearer ') and slice(7)
BearerToken(a) == IF a.scheme = "Bearer" THEN a.rest ELSE None

\* JavaScript's truthiness of a string or undefined.
Provided(k) == k \notin {None, ""}

\* Mutant of providedKey: the query parameter is read first.
providedKey_QueryFirst(cr) ==
    IF Provided(cr.api_key) THEN cr.api_key
    ELSE IF Provided(cr.xApiKey) THEN cr.xApiKey
    ELSE BearerToken(cr.authorization)

\* auth.ts:22-38: the key taken from the request.
providedKey(cr) ==
    IF Provided(cr.xApiKey) THEN cr.xApiKey
    ELSE IF Provided(BearerToken(cr.authorization))
         THEN BearerToken(cr.authorization)
    ELSE cr.api_key

\* auth.ts:13-58: "pass" stands for next().
Verdict(env, cr) ==
    IF Len(getApiKeys(env)) = 0 THEN "pass"
    ELSE IF ~Provided(providedKey(cr)) THEN "401"
    ELSE IF ~Includes(getApiKeys(env), providedKey(cr)) THEN "403"
    ELSE "pass"

\* auth.ts:42-46 and 50-54
Unauthorized == [code |-> 401, success |-> FALSE, error |-> "Clé API requise",
                 job_id |-> None, stats |-> None, businesses |-> <<>>]
Forbidden == [code |-> 403, success |-> FALSE, error |-> "Clé API invalide",
              job_id |-> None, stats |-> None, businesses |-> <<>>]

NoCredentials == [xApiKey |-> None, authorization |-> NoAuthorization,
                  api_key |-> None]
NoAuth == [env |-> <<>>, cred |-> NoCredentials, verdict |-> None]

\* GET /:jobId before any lookup.
NoLookup == [id |-> None, code |-> 0, status |-> None]

InitHandlerVars ==
    /\ mode = None
    /\ req = NoRequest
    /\ lookup = NoLookup
    /\ jobId = None
    /\ jobStore = EmptyStore
    /\ response = NoResponse
    /\ scBusinesses = <<>>
    /\ scStats = None
    /\ scError = None
    /\ webhookCalls = <<>>
    /\ hBusinesses = <<>>
    /\ isComplete = FALSE
    /\ heartbeatInterval = FALSE
    /\ frames = <<>>
    /\ connected = TRUE
    /\ wres = None
    /\ hbFail = FALSE
    /\ ticks = 0

\* Without the middleware: no key is configured and none is carried.
InitAdapterVars == InitHandlerVars /\ auth = NoAuth

-----------------------------------------------------------------------------
(* The request: scrape.ts:37-63, 164-191, 245-271 *)

\* Mutant of HandleRequest: POST /webhook gives no answer when it accepts the
\* request.
HandleRequest_NoAck(I) ==
    /\ hpc = "idle"
    /\ \E m \in Routes :
       \E r \in I[m], id \in JobIds \ DOMAIN jobStore :
         /\ mode' = m
         /\ req' = r
         /\ IF ~Validation(m, r).success
            THEN /\ response' = BadRequest
                 /\ hpc' = "done"
                 /\ UNCHANGED <<jobId, jobStore>>
            ELSE /\ jobId' = id
                 /\ jobStore' = JobSet(jobStore, id, RunningRec)
                 /\ hpc' = IF m = "stream" THEN "callback" ELSE "pull"
                 /\ response' = response
    /\ UNCHANGED <<bridgeVars, scrapeVars, webhookCalls, streamVars, auth, lookup>>

\* A request arrives on one of the three routes with parameters out of
\* I[route].  The handler validates them; when that fails it answers 400 and
\* is done.  Otherwise it draws a job id and stores the running record;
\* POST /webhook starts its background task and returns the acknowledgement
\* (scrape.ts:342-348).
HandleRequest(I) ==
    /\ hpc = "idle"
    /\ \E m \in Routes :
       \E r \in I[m], id \in JobIds \ DOMAIN jobStore :
         /\ mode' = m
         /\ req' = r
         /\ IF ~Validation(m, r).success
            THEN /\ response' = BadRequest
                 /\ hpc' = "done"
                 /\ UNCHANGED <<jobId, jobStore>>
            ELSE /\ jobId' = id
                 /\ jobStore' = JobSet(jobStore, id, RunningRec)
                 /\ hpc' = IF m = "stream" THEN "callback" ELSE "pull"
                 /\ response' = IF m = "webhook" THEN AckResponse(id) ELSE response
    /\ UNCHANGED <<bridgeVars, scrapeVars, webhookCalls, streamVars, auth, lookup>>

\* A valid request arrives.
Request == HandleRequest([m \in Routes |-> TypicalRequests(m)])

\* Any request arrives.
AnyRequest == HandleRequest([m \in Routes |-> AllRequests(m)])

-----------------------------------------------------------------------------
(* ScraperService.scrape, as called by POST / and POST /webhook *)

\* scraper.ts:152-165: the body of the for await loop, for one event.
ScrapeEvent ==
    /\ mode \in {"sync", "webhook"}
    /\ hpc = "pull"
    /\ cur.st = "value"
    /\ LET e == cur.v IN
         /\ scBusinesses' = IF e.type = "business" /\ e.data # None
                            THEN Append(scBusinesses, e.data) ELSE scBusinesses
         /\ scStats' = IF e.type = "complete" /\ e.stats # None
                       THEN e.stats ELSE scStats
         /\ scError' = IF e.type = "error" THEN e.message ELSE scError
    /\ cur' = Rnone
    /\ UNCHANGED <<proc, sigs, arrived, eventQueue, resolveNext, promise, isDone,
                   gpc, out, via, isRunning, svcBusinesses, svcStats, hpc,
                   mode, jobId, jobStore, response, webhookCalls, streamVars,
                   svcProcess, kills, spawns, req, auth, lookup>>

\* Mutant of ScrapeFinalError: a drain without a complete or an error event
\* counts as a failure.
ScrapeFinalError_NeedsTerminal ==
    IF cur.st = "throw" THEN SpawnMsg
    ELSE IF scError = None /\ scStats = None THEN "no terminal event"
    ELSE scError

\* scraper.ts:166-168: the error scrape() ends with; the catch sets it to the
\* message of what stream() threw.
ScrapeFinalError == IF cur.st = "throw" THEN SpawnMsg ELSE scError

\* JavaScript's truthiness of `error`, a string or null: null and the empty
\* string are falsy.
Truthy(m) == m \notin {None, ""}

\* Mutant of ScraperResult: the business list is cut to its first element.
ScraperResult_FirstOnly ==
    [success |-> ~Truthy(ScrapeFinalError) /\ Len(scBusinesses) > 0,
     stats |-> scStats,
     businesses |-> IF Len(scBusinesses) > 1
                    THEN <<scBusinesses[1]>> ELSE scBusinesses,
     error |-> IF Truthy(ScrapeFinalError) THEN ScrapeFinalError ELSE None]

\* scraper.ts:170-178: the ScraperResult scrape() returns.  `!error` and
\* `error || undefined` go by truthiness; stats is an object or null.
ScraperResult ==
    [success |-> ~Truthy(ScrapeFinalError) /\ Len(scBusinesses) > 0,
     stats |-> scStats,
     businesses |-> scBusinesses,
     error |-> IF Truthy(ScrapeFinalError) THEN ScrapeFinalError ELSE None]

\* scraper.ts:151-168: scrape() throws.  Its try block holds the whole loop
\* and its catch takes whatever stream() throws, so it never does.
ScrapeThrows == FALSE

\* scrape.ts:193-238: scrape() has settled in POST /.  The handler does not
\* read result.success or result.error.
SyncFinish ==
    /\ mode = "sync"
    /\ hpc = "pull"
    /\ cur.st \in {"end", "throw"}
    /\ IF ScrapeThrows
       THEN /\ jobStore' = JobSet(jobStore, jobId, ErrorRec(jobStore[jobId], SpawnMsg))
            /\ response' = FailResponse(SpawnMsg)
       ELSE LET scrapeResult == MkResult(ScraperResult.stats, ScraperResult.businesses) IN
            /\ jobStore' = JobSet(jobStore, jobId, CompletedRec(jobStore[jobId], scrapeResult))
            /\ response' = OkResponse(scrapeResult)
    /\ scError' = ScrapeFinalError
    /\ cur' = Rnone
    /\ hpc' = "done"
    /\ UNCHANGED <<proc, sigs, arrived, eventQueue, resolveNext, promise, isDone,
                   gpc, out, via, isRunning, svcBusinesses, svcStats,
                   mode, jobId, scBusinesses, scStats, webhookCalls, streamVars,
                   svcProcess, kills, spawns, req, auth, lookup>>

\* scrape.ts:276-335: scrape() has settled in the background task, which
\* stores the record and posts the payload; like POST / it does not read
\* result.success or result.error.
WebhookFinish ==
    /\ mode = "webhook"
    /\ hpc = "pull"
    /\ cur.st \in {"end", "throw"}
    /\ IF ScrapeThrows
       THEN /\ jobStore' = JobSet(jobStore, jobId, ErrorRec(jobStore[jobId], SpawnMsg))
            /\ webhookCalls' = Append(webhookCalls, FailPayload(SpawnMsg))
            /\ hpc' = "fetchFail"
       ELSE LET scrapeResult == MkResult(ScraperResult.stats, ScraperResult.businesses) IN
            /\ jobStore' = JobSet(jobStore, jobId, CompletedRec(jobStore[jobId], scrapeResult))
            /\ webhookCalls' = Append(webhookCalls, OkPayload(scrapeResult))
            /\ hpc' = "fetch"
    /\ scError' = ScrapeFinalError
    /\ cur' = Rnone
    /\ UNCHANGED <<proc, sigs, arrived, eventQueue, resolveNext, promise, isDone,
                   gpc, out, via, isRunning, svcBusinesses, svcStats,
                   mode, jobId, response, scBusinesses, scStats, streamVars,
                   svcProcess, kills, spawns, req, auth, lookup>>

\* scrape.ts:297-335: the first fetch settles.  It resolves on any HTTP
\* status; on a network error it rejects and the catch stores the error
\* record and posts the failure payload.
WebhookFetchSettles ==
    /\ mode = "webhook"
    /\ hpc = "fetch"
    /\ \E outcome \in {"2xx", "non2xx", "neterr"} :
         IF outcome = "neterr"
         THEN /\ jobStore' = JobSet(jobStore, jobId, ErrorRec(jobStore[jobId], FetchMsg))
              /\ webhookCalls' = Append(webhookCalls, FailPayload(FetchMsg))
              /\ hpc' = "fetchFail"
         ELSE /\ hpc' = "done"
              /\ UNCHANGED <<jobStore, webhookCalls>>
    /\ UNCHANGED <<bridgeVars, mode, jobId, response, scrapeVars, streamVars, req, auth, lookup>>

\* scrape.ts:323-338: the fetch of the catch block settles; a rejection is
\* logged.
WebhookFailFetchSettles ==
    /\ mode = "webhook"
    /\ hpc = "fetchFail"
    /\ hpc' = "done"
    /\ UNCHANGED <<bridgeVars, adapterVars>>

-----------------------------------------------------------------------------
(* GET /stream: the streaming callback, scrape.ts:72-157 *)

\* Mutant of WriteAccepted: the frame is put before those already written.
WriteAccepted_Front(f) == IF connected THEN <<f>> \o frames ELSE frames

\* streamWriter.write(frame): the transport takes the frame while the client
\* is connected, and rejects the write otherwise.
WriteAccepted(f) == IF connected THEN Append(frames, f) ELSE frames
WriteOutcome == IF connected THEN "ok" ELSE "fail"

\* scrape.ts:78-85: what the catch of writeSSE leaves in isComplete once the
\* awaited write has settled.
AfterWrite(flag) == flag \/ wres = "fail"

\* Mutant of StreamStart: the timer's callback runs once at once, before the
\* job frame is written.
StreamStart_PingFirst ==
    /\ mode = "stream"
    /\ hpc = "callback"
    /\ heartbeatInterval' = TRUE
    /\ frames' = IF connected THEN frames \o <<PingFrame, JobFrame(jobId)>>
                 ELSE frames
    /\ wres' = WriteOutcome
    /\ hpc' = "jobWrite"
    /\ UNCHANGED <<bridgeVars, mode, jobId, jobStore, response, scrapeVars,
                   webhookCalls, hBusinesses, isComplete, connected, hbFail, ticks,
                   req, auth, lookup>>

\* scrape.ts:73-98: the callback starts: it sets the timer and writes the
\* job frame.
StreamStart ==
    /\ mode = "stream"
    /\ hpc = "callback"
    /\ heartbeatInterval' = TRUE
    /\ frames' = WriteAccepted(JobFrame(jobId))
    /\ wres' = WriteOutcome
    /\ hpc' = "jobWrite"
    /\ UNCHANGED <<bridgeVars, mode, jobId, jobStore, response, scrapeVars,
                   webhookCalls, hBusinesses, isComplete, connected, hbFail, ticks,
                   req, auth, lookup>>

\* Mutant of StreamJobWritten: a rejected write is recorded as the job's
\* failure.
StreamJobWritten_Records ==
    /\ mode = "stream"
    /\ hpc = "jobWrite"
    /\ isComplete' = AfterWrite(isComplete)
    /\ jobStore' = IF wres = "fail"
                   THEN JobSet(jobStore, jobId,
                               ErrorRec(jobStore[jobId], "write failed"))
                   ELSE jobStore
    /\ wres' = None
    /\ hpc' = "pull"
    /\ UNCHANGED <<bridgeVars, mode, jobId, response, scrapeVars,
                   webhookCalls, hBusinesses, heartbeatInterval, frames,
                   connected, hbFail, ticks, req, auth, lookup>>

\* scrape.ts:98-101: the write of the job frame has settled; the loop starts.
StreamJobWritten ==
    /\ mode = "stream"
    /\ hpc = "jobWrite"
    /\ isComplete' = AfterWrite(isComplete)
    /\ wres' = None
    /\ hpc' = "pull"
    /\ UNCHANGED <<bridgeVars, mode, jobId, jobStore, response, scrapeVars,
                   webhookCalls, hBusinesses, heartbeatInterval, frames,
                   connected, hbFail, ticks, req, auth, lookup>>

\* Mutant of StreamEvent: the loop has no break.
StreamEvent_NoBreak ==
    /\ mode = "stream"
    /\ hpc = "pull"
    /\ cur.st = "value"
    /\ hBusinesses' = IF cur.v.type = "business" /\ cur.v.data # None
                      THEN Append(hBusinesses, cur.v.data) ELSE hBusinesses
    /\ frames' = WriteAccepted(formatSSE(cur.v.type, cur.v))
    /\ wres' = WriteOutcome
    /\ hpc' = "eventWrite"
    /\ UNCHANGED <<proc, sigs, arrived, eventQueue, resolveNext, promise, isDone,
                   gpc, cur, out, via, isRunning, svcBusinesses, svcStats,
                   mode, jobId, jobStore, response, scrapeVars, webhookCalls,
                   isComplete, heartbeatInterval, connected, hbFail, ticks,
                   svcProcess, kills, spawns, req, auth, lookup>>

\* Mutant of StreamEvent: leaving the loop stops the scraper.
StreamEvent_Stops ==
    /\ mode = "stream"
    /\ hpc = "pull"
    /\ cur.st = "value"
    /\ IF isComplete
       THEN /\ gpc' = "done"
            /\ cur' = Rnone
            /\ heartbeatInterval' = FALSE
            /\ hpc' = "done"
            /\ stop
            /\ UNCHANGED <<hBusinesses, frames, wres, spawns>>
       ELSE /\ hBusinesses' = IF cur.v.type = "business" /\ cur.v.data # None
                              THEN Append(hBusinesses, cur.v.data) ELSE hBusinesses
            /\ frames' = WriteAccepted(formatSSE(cur.v.type, cur.v))
            /\ wres' = WriteOutcome
            /\ hpc' = "eventWrite"
            /\ UNCHANGED <<gpc, cur, heartbeatInterval, isRunning, svcProcess, kills, spawns>>
    /\ UNCHANGED <<proc, sigs, arrived, eventQueue, resolveNext, promise, isDone,
                   out, via, svcBusinesses, svcStats,
                   mode, jobId, jobStore, response, scrapeVars, webhookCalls,
                   isComplete, connected, hbFail, ticks, req, auth, lookup>>

\* scrape.ts:106-112: the loop body up to the write of the event's frame; or
\* the break, after which the generator is closed and the callback ends
\* (line 156).
StreamEvent ==
    /\ mode = "stream"
    /\ hpc = "pull"
    /\ cur.st = "value"
    /\ IF isComplete
       THEN /\ gpc' = "done"
            /\ cur' = Rnone
            /\ heartbeatInterval' = FALSE
            /\ hpc' = "done"
            /\ UNCHANGED <<hBusinesses, frames, wres>>
       ELSE /\ hBusinesses' = IF cur.v.type = "business" /\ cur.v.data # None
                              THEN Append(hBusinesses, cur.v.data) ELSE hBusinesses
            /\ frames' = WriteAccepted(formatSSE(cur.v.type, cur.v))
            /\ wres' = WriteOutcome
            /\ hpc' = "eventWrite"
            /\ UNCHANGED <<gpc, cur, heartbeatInterval>>
    /\ UNCHANGED <<proc, sigs, arrived, eventQueue, resolveNext, promise, isDone,
                   out, via, isRunning, svcBusinesses, svcStats,
                   mode, jobId, jobStore, response, scrapeVars, webhookCalls,
                   isComplete, connected, hbFail, ticks,
                   svcProcess, kills, spawns, req, auth, lookup>>

\* Mutant of StreamEventWritten: the result always takes the handler's own
\* list.
StreamEventWritten_OwnList ==
    /\ mode = "stream"
    /\ hpc = "eventWrite"
    /\ LET e == cur.v
           terminal == e.type \in {"complete", "error"}
       IN
         /\ isComplete' = (AfterWrite(isComplete) \/ terminal)
         /\ heartbeatInterval' = IF terminal THEN FALSE ELSE heartbeatInterval
         /\ jobStore' =
              IF e.type = "complete"
              THEN JobSet(jobStore, jobId,
                     CompletedRec(jobStore[jobId],
                       MkResult(e.stats, hBusinesses)))
              ELSE IF e.type = "error"
              THEN JobSet(jobStore, jobId, ErrorRec(jobStore[jobId], e.message))
              ELSE jobStore
    /\ wres' = None
    /\ cur' = Rnone
    /\ hpc' = "pull"
    /\ UNCHANGED <<proc, sigs, arrived, eventQueue, resolveNext, promise, isDone,
                   gpc, out, via, isRunning, svcBusinesses, svcStats,
                   mode, jobId, response, scrapeVars, webhookCalls,
                   hBusinesses, frames, connected, hbFail, ticks,
                   svcProcess, kills, spawns, req, auth, lookup>>

\* Mutant of StreamEventWritten: a complete event ends the stream and is
\* not recorded.
StreamEventWritten_CompleteUnrecorded ==
    /\ mode = "stream"
    /\ hpc = "eventWrite"
    /\ LET e == cur.v
           terminal == e.type \in {"complete", "error"}
       IN
         /\ isComplete' = (AfterWrite(isComplete) \/ terminal)
         /\ heartbeatInterval' = IF terminal THEN FALSE ELSE heartbeatInterval
         /\ jobStore' =
              IF e.type = "error"
              THEN JobSet(jobStore, jobId, ErrorRec(jobStore[jobId], e.message))
              ELSE jobStore
    /\ wres' = None
    /\ cur' = Rnone
    /\ hpc' = "pull"
    /\ UNCHANGED <<proc, sigs, arrived, eventQueue, resolveNext, promise, isDone,
                   gpc, out, via, isRunning, svcBusinesses, svcStats,
                   mode, jobId, response, scrapeVars, webhookCalls,
                   hBusinesses, frames, connected, hbFail, ticks,
                   svcProcess, kills, spawns, req, auth, lookup>>

\* Mutant of StreamEventWritten: an error event ends the stream and is not
\* recorded.
StreamEventWritten_ErrorUnrecorded ==
    /\ mode = "stream"
    /\ hpc = "eventWrite"
    /\ LET e == cur.v
           terminal == e.type \in {"complete", "error"}
       IN
         /\ isComplete' = (AfterWrite(isComplete) \/ terminal)
         /\ heartbeatInterval' = IF terminal THEN FALSE ELSE heartbeatInterval
         /\ jobStore' =
              IF e.type = "complete"
              THEN JobSet(jobStore, jobId,
                     CompletedRec(jobStore[jobId],
                       MkResult(e.stats, IF e.declared THEN e.businesses
                                         ELSE hBusinesses)))
              ELSE jobStore
    /\ wres' = None
    /\ cur' = Rnone
    /\ hpc' = "pull"
    /\ UNCHANGED <<proc, sigs, arrived, eventQueue, resolveNext, promise, isDone,
                   gpc, out, via, isRunning, svcBusinesses, svcStats,
                   mode, jobId, response, scrapeVars, webhookCalls,
                   hBusinesses, frames, connected, hbFail, ticks,
                   svcProcess, kills, spawns, req, auth, lookup>>

\* scrape.ts:112-141: the write of the event's frame has settled; a complete
\* or error event ends the heartbeat and is recorded.
StreamEventWritten ==
    /\ mode = "stream"
    /\ hpc = "eventWrite"
    /\ LET e == cur.v
           terminal == e.type \in {"complete", "error"}
       IN
         /\ isComplete' = (AfterWrite(isComplete) \/ terminal)
         /\ heartbeatInterval' = IF terminal THEN FALSE ELSE heartbeatInterval
         /\ jobStore' =
              IF e.type = "complete"
              THEN JobSet(jobStore, jobId,
                     CompletedRec(jobStore[jobId],
                       MkResult(e.stats, IF e.declared THEN e.businesses
                                         ELSE hBusinesses)))
              ELSE IF e.type = "error"
              THEN JobSet(jobStore, jobId, ErrorRec(jobStore[jobId], e.message))
              ELSE jobStore
    /\ wres' = None
    /\ cur' = Rnone
    /\ hpc' = "pull"
    /\ UNCHANGED <<proc, sigs, arrived, eventQueue, resolveNext, promise, isDone,
                   gpc, out, via, isRunning, svcBusinesses, svcStats,
                   mode, jobId, response, scrapeVars, webhookCalls,
                   hBusinesses, frames, connected, hbFail, ticks,
                   svcProcess, kills, spawns, req, auth, lookup>>

\* scrape.ts:141 and 155-157: stream() has ended; the callback clears the
\* timer and returns.
StreamEnd ==
    /\ mode = "stream"
    /\ hpc = "pull"
    /\ cur.st = "end"
    /\ cur' = Rnone
    /\ heartbeatInterval' = FALSE
    /\ hpc' = "done"
    /\ UNCHANGED <<proc, sigs, arrived, eventQueue, resolveNext, promise, isDone,
                   gpc, out, via, isRunning, svcBusinesses, svcStats,
                   mode, jobId, jobStore, response, scrapeVars, webhookCalls,
                   hBusinesses, isComplete, frames, connected, wres, hbFail, ticks,
                   svcProcess, kills, spawns, req, auth, lookup>>

\* scrape.ts:142-146: stream() has thrown; the catch writes an error frame.
StreamCatch ==
    /\ mode = "stream"
    /\ hpc = "pull"
    /\ cur.st = "throw"
    /\ isComplete' = TRUE
    /\ heartbeatInterval' = FALSE
    /\ frames' = WriteAccepted(ErrorFrame(SpawnMsg))
    /\ wres' = WriteOutcome
    /\ cur' = Rnone
    /\ hpc' = "errorWrite"
    /\ UNCHANGED <<proc, sigs, arrived, eventQueue, resolveNext, promise, isDone,
                   gpc, out, via, isRunning, svcBusinesses, svcStats,
                   mode, jobId, jobStore, response, scrapeVars, webhookCalls,
                   hBusinesses, connected, hbFail, ticks,
                   svcProcess, kills, spawns, req, auth, lookup>>

\* scrape.ts:146-157: the write of the error frame has settled; the failure
\* is recorded and the callback returns.
StreamCatchWritten ==
    /\ mode = "stream"
    /\ hpc = "errorWrite"
    /\ jobStore' = JobSet(jobStore, jobId, ErrorRec(jobStore[jobId], SpawnMsg))
    /\ wres' = None
    /\ hpc' = "done"
    /\ UNCHANGED <<bridgeVars, mode, jobId, response, scrapeVars, webhookCalls,
                   hBusinesses, isComplete, heartbeatInterval, frames,
                   connected, hbFail, ticks, req, auth, lookup>>

\* Mutant of HeartbeatTick: the callback never clears the timer.
HeartbeatTick_NoClear ==
    /\ heartbeatInterval
    /\ ticks < MaxTicks
    /\ ~isComplete
    /\ ticks' = ticks + 1
    /\ frames' = WriteAccepted(PingFrame)
    /\ hbFail' = (hbFail \/ ~connected)
    /\ UNCHANGED heartbeatInterval
    /\ UNCHANGED <<bridgeVars, hpc, mode, jobId, jobStore, response, scrapeVars,
                   webhookCalls, hBusinesses, isComplete, connected, wres,
                   req, auth, lookup>>

\* scrape.ts:89-95: one callback of the interval timer.  MaxTicks bounds the
\* callbacks that write a ping; the one that clears the timer is not held
\* back by it.
HeartbeatTick ==
    /\ heartbeatInterval
    /\ ticks < MaxTicks \/ isComplete
    /\ ticks' = ticks + 1
    /\ IF ~isComplete
       THEN /\ frames' = WriteAccepted(PingFrame)
            /\ hbFail' = (hbFail \/ ~connected)
            /\ UNCHANGED heartbeatInterval
       ELSE /\ heartbeatInterval' = FALSE
            /\ UNCHANGED <<frames, hbFail>>
    /\ UNCHANGED <<bridgeVars, hpc, mode, jobId, jobStore, response, scrapeVars,
                   webhookCalls, hBusinesses, isComplete, connected, wres,
                   req, auth, lookup>>

\* scrape.ts:81-84: the catch of writeSSE after a rejected heartbeat write.
HeartbeatCatch ==
    /\ hbFail
    /\ hbFail' = FALSE
    /\ isComplete' = TRUE
    /\ UNCHANGED <<bridgeVars, hpc, mode, jobId, jobStore, response, scrapeVars,
                   webhookCalls, hBusinesses, heartbeatInterval, frames,
                   connected, wres, ticks, req, auth, lookup>>

\* The client of a streaming request goes away.
Disconnect ==
    /\ mode = "stream"
    /\ hpc # "done"
    /\ connected
    /\ connected' = FALSE
    /\ UNCHANGED <<bridgeVars, hpc, mode, jobId, jobStore, response, scrapeVars,
                   webhookCalls, hBusinesses, isComplete, heartbeatInterval,
                   frames, wres, hbFail, ticks, req, auth, lookup>>

-----------------------------------------------------------------------------
(* The bridge alone, under a consumer that pulls whenever it likes *)

\* The consumer takes the result of its next() call.
Consume ==
    /\ hpc = "free"
    /\ cur.st # "none"
    /\ gpc # "done"
    /\ cur' = Rnone
    /\ UNCHANGED <<proc, sigs, arrived, eventQueue, resolveNext, promise,
                   isDone, gpc, out, via, isRunning, svcBusinesses, svcStats, hpc, adapterVars,
                   svcProcess, kills, spawns>>

InitBridgeVars ==
    /\ proc = "unspawned"
    /\ sigs = {}
    /\ arrived = <<>>
    /\ eventQueue = <<>>
    /\ resolveNext = FALSE
    /\ promise = Rnone
    /\ isDone = FALSE
    /\ gpc = "init"
    /\ cur = Rnone
    /\ out = <<>>
    /\ via = <<>>
    /\ isRunning = FALSE
    /\ svcBusinesses = <<>>
    /\ svcStats = None
    /\ svcProcess = FALSE
    /\ kills = 0
    /\ spawns = 0

InitBridge == InitBridgeVars /\ InitAdapterVars /\ hpc = "free"

NextBridge == StartStream \/ Pull \/ Resume \/ Line \/ Signal \/ Consume

SpecBridge == InitBridge /\ [][NextBridge]_vars

\* A caller of the service calls stop(), at any time and any number of times.
Stop ==
    /\ stop
    /\ UNCHANGED <<proc, sigs, arrived, eventQueue, resolveNext, promise,
                   isDone, gpc, cur, out, via, svcBusinesses, svcStats,
                   spawns, hpc, adapterVars>>

\* stream() under a consumer that also calls stop().
NextStop == NextBridge \/ Stop

SpecStop == InitBridge /\ [][NextStop]_vars

\* The consumer keeps pulling, and the event loop runs every settled
\* continuation: the asynchronous iteration of stream() by `for await`.
SpecBridgeFair ==
    /\ InitBridge
    /\ [][NextBridge]_vars
    /\ WF_vars(StartStream) /\ WF_vars(Pull) /\ WF_vars(Resume) /\ WF_vars(Consume)

-----------------------------------------------------------------------------
(* One request handled from its arrival *)

Init == InitBridgeVars /\ InitAdapterVars /\ hpc = "idle"

Next ==
    \/ Request
    \/ StartStream \/ Pull \/ Resume \/ EventLine \/ Signal
    \/ ScrapeEvent \/ SyncFinish
    \/ WebhookFinish \/ WebhookFetchSettles \/ WebhookFailFetchSettles
    \/ StreamStart \/ StreamJobWritten \/ StreamEvent \/ StreamEventWritten
    \/ StreamEnd \/ StreamCatch \/ StreamCatchWritten
    \/ HeartbeatTick \/ HeartbeatCatch \/ Disconnect

Spec == Init /\ [][Next]_vars

-----------------------------------------------------------------------------
(* Two jobs in one registry *)

\* The ids uuidv4() gives to the handlers of other requests.
OtherIds == {"job-2"}

\* Another request is handled at the same time by its own invocation of a
\* handler, with its own ScraperService and its own locals; jobStore is the
\* one object it shares with the request followed above.  These are its
\* writes, as POST /webhook makes them: the running record under a new id
\* (scrape.ts:268), the completed record (scrape.ts:290), and the error
\* record after a failed scrape or a rejected delivery (scrape.ts:316).
OtherHandler ==
    \E y \in OtherIds, w \in {"create", "complete", "fail"} :
        /\ IF w = "create"
           THEN /\ y \notin DOMAIN jobStore
                /\ jobStore' = JobSet(jobStore, y, RunningRec)
           ELSE /\ y \in DOMAIN jobStore
                /\ IF w = "complete"
                   THEN /\ jobStore[y].status = "running"
                        /\ jobStore' = JobSet(jobStore, y,
                               CompletedRec(jobStore[y], MkResult(None, <<>>)))
                   ELSE /\ jobStore[y].status \in {"running", "completed"}
                        /\ jobStore' = JobSet(jobStore, y,
                               ErrorRec(jobStore[y], FetchMsg))
        /\ UNCHANGED <<bridgeVars, hpc, mode, jobId, response, scrapeVars,
                       webhookCalls, streamVars, req, auth, lookup>>

\* What passes between the worker and its handler is as in Next; the lines
\* are the worker's Events, since text the bridge drops reaches no handler.
NextJobs ==
    \/ Request \/ OtherHandler
    \/ StartStream \/ Pull \/ Resume \/ ProtocolLine \/ Signal
    \/ ScrapeEvent \/ SyncFinish
    \/ WebhookFinish \/ WebhookFetchSettles \/ WebhookFailFetchSettles
    \/ StreamStart \/ StreamJobWritten \/ StreamEvent \/ StreamEventWritten
    \/ StreamEnd \/ StreamCatch \/ StreamCatchWritten
    \/ HeartbeatTick \/ HeartbeatCatch \/ Disconnect

SpecJobs == Init /\ [][NextJobs]_vars

\* An id no request was given.
UnknownIds == {"job-9"}

\* Mutant of GetJob: the lookup drops the record it has read.
GetJob_Consumes ==
    \E id \in JobIds \cup UnknownIds :
        /\ lookup' = IF id \in DOMAIN jobStore
                      THEN [id |-> id, code |-> 200, status |-> jobStore[id].status]
                      ELSE [id |-> id, code |-> 404, status |-> None]
        /\ jobStore' = [j \in DOMAIN jobStore \ {id} |-> jobStore[j]]
        /\ UNCHANGED <<bridgeVars, hpc, mode, req, auth, jobId, response,
                       scrapeVars, webhookCalls, streamVars>>

\* scrape.ts:355-379: GET /:jobId, at any time and for any id.  jobStore.get
\* gives the record or undefined.
GetJob ==
    \E id \in JobIds \cup UnknownIds :
        /\ lookup' = IF id \in DOMAIN jobStore
                      THEN [id |-> id, code |-> 200, status |-> jobStore[id].status]
                      ELSE [id |-> id, code |-> 404, status |-> None]
        /\ UNCHANGED <<bridgeVars, hpc, mode, req, auth, jobId, jobStore,
                       response, scrapeVars, webhookCalls, streamVars>>

\* The three handlers and the lookups, side by side; the worker's lines are
\* its terminal events, the ones a handler answers with a write to jobStore.
NextLookup ==
    \/ Request \/ GetJob
    \/ StartStream \/ Pull \/ Resume \/ TerminalLine \/ Signal
    \/ ScrapeEvent \/ SyncFinish
    \/ WebhookFinish \/ WebhookFetchSettles \/ WebhookFailFetchSettles
    \/ StreamStart \/ StreamJobWritten \/ StreamEvent \/ StreamEventWritten
    \/ StreamEnd \/ StreamCatch \/ StreamCatchWritten
    \/ HeartbeatTick \/ HeartbeatCatch \/ Disconnect

SpecLookup == Init /\ [][NextLookup]_vars

-----------------------------------------------------------------------------
(* One request of any content *)

NextRequest ==
    \/ AnyRequest
    \/ StartStream \/ Pull \/ Resume \/ ProtocolLine \/ Signal
    \/ ScrapeEvent \/ SyncFinish
    \/ WebhookFinish \/ WebhookFetchSettles \/ WebhookFailFetchSettles
    \/ StreamStart \/ StreamJobWritten \/ StreamEvent \/ StreamEventWritten
    \/ StreamEnd \/ StreamCatch \/ StreamCatchWritten
    \/ HeartbeatTick \/ HeartbeatCatch \/ Disconnect

SpecRequest == Init /\ [][NextRequest]_vars

-----------------------------------------------------------------------------
(* One streaming request *)

\* A valid request arrives on GET /stream.
StreamRequest ==
    HandleRequest([m \in Routes |->
                     IF m = "stream" THEN TypicalRequests(m) ELSE {}])

NextStream ==
    \/ StreamRequest
    \/ StartStream \/ Pull \/ Resume \/ StreamLine \/ Signal
    \/ StreamStart \/ StreamJobWritten \/ StreamEvent \/ StreamEventWritten
    \/ StreamEnd \/ StreamCatch \/ StreamCatchWritten
    \/ HeartbeatTick \/ HeartbeatCatch \/ Disconnect

SpecStream == Init /\ [][NextStream]_vars

\* POST / and POST /webhook alone, over the Events scrape() tells apart.
ScrapeRequest ==
    HandleRequest([m \in Routes |->
                     IF m = "stream" THEN {} ELSE TypicalRequests(m)])

NextScrape ==
    \/ ScrapeRequest
    \/ StartStream \/ Pull \/ Resume \/ ScrapeLine \/ Signal
    \/ ScrapeEvent \/ SyncFinish
    \/ WebhookFinish \/ WebhookFetchSettles \/ WebhookFailFetchSettles

SpecScrape == Init /\ [][NextScrape]_vars

\* auth.ts:12-59: the middleware of /api/*, run before the route's handler.
\* It answers 401 or 403 itself, or calls next(), which runs the handler.
apiKeyAuth ==
    /\ hpc = "auth"
    /\ \E cr \in Credentials :
         LET v == Verdict(auth.env, cr) IN
         /\ auth' = [auth EXCEPT !.cred = cr, !.verdict = v]
         /\ hpc' = IF v = "pass" THEN "idle" ELSE "done"
         /\ response' = IF v = "401" THEN Unauthorized
                         ELSE IF v = "403" THEN Forbidden
                         ELSE response
    /\ UNCHANGED <<bridgeVars, mode, req, lookup, jobId, jobStore, scrapeVars,
                   webhookCalls, streamVars>>

\* index.ts:115-119: one request to /api/scrape, under each value of
\* API_KEYS, through the middleware to the handler and the start of stream().
InitAuth ==
    /\ InitBridgeVars
    /\ InitHandlerVars
    /\ hpc = "auth"
    /\ \E env \in EnvInputs : auth = [NoAuth EXCEPT !.env = env]

NextAuth == apiKeyAuth \/ Request \/ StartStream

SpecAuth == InitAuth /\ [][NextAuth]_vars

\* The same with the worker's Events told apart by type only.
NextStreamFair ==
    \/ StreamRequest
    \/ StartStream \/ Pull \/ Resume \/ ProtocolLine \/ Signal
    \/ StreamStart \/ StreamJobWritten \/ StreamEvent \/ StreamEventWritten
    \/ StreamEnd \/ StreamCatch \/ StreamCatchWritten
    \/ HeartbeatTick \/ HeartbeatCatch \/ Disconnect

\* The handler's thread of control: the callback, the loop that iterates
\* stream(), and the body of stream() it resumes.  These steps follow one
\* another; at most one of them can be taken at a time.
StreamThread ==
    \/ StartStream \/ Pull \/ Resume
    \/ StreamStart \/ StreamJobWritten \/ StreamEvent \/ StreamEventWritten
    \/ StreamEnd \/ StreamCatch \/ StreamCatchWritten

\* The event loop runs the handler on: the callback starts, every write
\* settles, `for await` pulls stream() again and every settled continuation
\* runs, the catch of a rejected ping included.  Nothing obliges the worker
\* to write a line or to exit, nor the timer to fire, nor the client to stay.
SpecStreamFair ==
    /\ Init
    /\ [][NextStreamFair]_vars
    /\ WF_vars(StreamThread)
    /\ WF_vars(HeartbeatCatch)

\* As SpecStreamFair, and the interval timer fires for as long as it is set
\* (setInterval, scrape.ts:89-95).
SpecHeartbeatFair ==
    /\ Init
    /\ [][NextStreamFair]_vars
    /\ WF_vars(StreamThread)
    /\ WF_vars(HeartbeatCatch)
    /\ WF_vars(HeartbeatTick)

-----------------------------------------------------------------------------
(* Properties of the bridge *)

IsPrefix(s, t) == Len(s) <= Len(t) /\ SubSeq(t, 1, Len(s)) = s

\* A line parses when the try block of the line handler runs to its end.
Parsed(l) == ~HandlerThrows(l)
ParsedLines == SelectSeq(arrived, Parsed)

\* The event handed to the waiting consumer that it has not yet resumed with.
InFlight == IF promise.st = "value" THEN <<promise.v>> ELSE <<>>

Ended == cur.st = "end"

\* C1: under every interleaving of line arrivals and pulls, the events
\* yielded by stream() are the parsed lines in their arrival order (a prefix
\* of them while the consumer is behind); a line that failed to parse is never
\* yielded.
C1_ArrivalOrder ==
    /\ IsPrefix(out, ParsedLines)
    /\ \A i \in 1..Len(out) : ~HandlerThrows(out[i])

\* Two lines around one that failed to parse were yielded in that order, the
\* first handed to the waiting consumer and the second taken from the buffer.
C1_Witness ==
    /\ Len(arrived) = 3
    /\ ~HandlerThrows(arrived[1]) /\ ParseThrows(arrived[2]) /\ ~HandlerThrows(arrived[3])
    /\ out = <<arrived[1], arrived[3]>>
    /\ via = <<"handoff", "buffer">>

\* C2: no parsed line is lost or duplicated: at every moment each parsed line
\* is in exactly one place (yielded, handed to the waiting consumer, or in the
\* buffer), in arrival order, and when the consumer reaches end-of-sequence
\* every parsed line has been yielded exactly once.
C2_NoLossNoDup ==
    /\ out \o InFlight \o eventQueue = ParsedLines
    /\ Ended => out = ParsedLines

\* End-of-sequence was reached by a run in which one event was handed directly
\* to the waiting consumer and another was still buffered when the signal fired.
C2_Witness ==
    /\ Ended
    /\ \E i \in 1..Len(via) : via[i] = "handoff"
    /\ \E i \in 1..Len(via) : via[i] = "drain"

\* C3: once the terminal signal has fired no consumer stays suspended on the
\* pending promise (a consumer waiting at that moment is resumed with
\* end-of-sequence), and a consumer that keeps pulling reaches end-of-sequence.
C3_Termination ==
    /\ [](isDone => ~(gpc = "await" /\ promise.st = "pending"))
    /\ [][(resolveNext /\ isDone') => promise'.st = "end"]_vars
    /\ (isDone ~> Ended)

\* The signal fired while the consumer was suspended, which is now to resume
\* with end-of-sequence.
C3_Witness == isDone /\ gpc = "await" /\ promise.st = "end"

\* C4: stream() reports end-of-sequence only after 'close' or 'error' has
\* fired; while neither has, a pull on an empty buffer leaves the consumer
\* suspended.
C4_NoEndWhileAlive ==
    (Ended \/ gpc = "done") => (sigs # {} \/ cur.st = "throw")

\* The worker is alive, an event has been yielded, and the next pull found the
\* buffer empty and suspended.
C4_Witness ==
    /\ proc = "alive" /\ sigs = {}
    /\ Len(out) >= 1
    /\ gpc = "await" /\ promise.st = "pending" /\ eventQueue = <<>>

\* An event as the data model has it: a JSON object with a `type`.
WellFormed(l) == l.kind = "json" /\ l.type # None

\* C5: a line that is not a well-formed Event is dropped: stream() yields
\* only well-formed Events.
C5_MalformedDropped == \A i \in 1..Len(out) : WellFormed(out[i])

-----------------------------------------------------------------------------
(* Properties of the handlers and the registry *)

\* The worker wrote an `error` event.
ErrorEmitted == \E i \in 1..Len(arrived) : arrived[i].type = "error"
\* m is the message of an `error` event the worker wrote.
ErrorMessage(m) ==
    \E i \in 1..Len(arrived) : arrived[i].type = "error" /\ arrived[i].message = m

\* C6: a job's record changes status at most once, from running to a
\* terminal status; a terminal record is never written again.
C6_SingleTransition ==
    [][\A j \in DOMAIN jobStore :
         jobStore[j].status # "running" => jobStore'[j] = jobStore[j]]_vars

\* C7: when the worker writes an `error` event during a synchronous
\* POST /scrape, the client gets a 5xx response with the message and the
\* job's record ends with status error and that message.
C7_SyncErrorSurfaced ==
    (mode = "sync" /\ hpc = "done" /\ ErrorEmitted) =>
        /\ response.code >= 500
        /\ ErrorMessage(response.error)
        /\ jobStore[jobId].status = "error"
        /\ ErrorMessage(jobStore[jobId].error)

\* C8: when the worker cannot be launched ('error' fires and no line is ever
\* written), the job's record is never completed and ends with status error.
C8_SpawnFailureRecorded ==
    proc = "spawnfail" =>
        /\ jobStore[jobId].status # "completed"
        /\ hpc = "done" => jobStore[jobId].status = "error"

\* C9: in webhook mode a payload with success=true is posted only for a
\* scrape that did not fail: after an `error` event of the worker every
\* payload carries success=false and a message.
C9_WebhookFailurePayload ==
    (mode = "webhook" /\ ErrorEmitted) =>
        \A i \in 1..Len(webhookCalls) :
            ~webhookCalls[i].success /\ webhookCalls[i].error # None

\* C10: in webhook mode the outcome of the outbound call does not alter the
\* job's record: from the moment the call is made the record stays as the
\* scrape left it.
C10_DeliveryKeepsRecord ==
    [][(mode = "webhook" /\ hpc \in {"fetch", "fetchFail"}) =>
          jobStore' = jobStore]_vars

\* C11: for one webhook job at most one POST to webhook_url is ever
\* attempted, whatever its outcome: no retry and no second call with another
\* payload.
C11_SingleDelivery == Len(webhookCalls) <= 1

handlerState == <<bridgeVars, hpc, mode, req, jobId, response, scrapeVars,
                  webhookCalls, streamVars>>

\* C13: jobs with distinct ids do not interfere.  No step removes a record; a
\* step that creates or rewrites the record of one job leaves every other
\* record as it was (creating a job overwrites nothing), and when that job is
\* not the one of the handler followed, it leaves that handler's state
\* untouched as well.
C13_JobsIsolated ==
    [][/\ DOMAIN jobStore \subseteq DOMAIN jobStore'
       /\ \A y \in DOMAIN jobStore' :
            (y \notin DOMAIN jobStore \/ jobStore'[y] # jobStore[y]) =>
                /\ \A z \in DOMAIN jobStore \ {y} : jobStore'[z] = jobStore[z]
                /\ y # jobId' => UNCHANGED handlerState]_vars

\* The streaming job was completed by its terminal event, after frames and a
\* ping, while the other job, created before it, failed.
C13_Witness ==
    /\ DOMAIN jobStore = {"job-1", "job-2"}
    /\ mode = "stream"
    /\ jobStore["job-1"].status = "completed"
    /\ jobStore["job-2"].status = "error"
    /\ \E i \in 1..Len(frames) : frames[i] = PingFrame

\* The parameters are in order: activity and city have at least 2
\* characters, and grid_size is left out (in a query string: left empty) or
\* is an integer from 1 to 55.
Acceptable(r) ==
    /\ r.activity.given /\ Len(r.activity.text) >= 2
    /\ r.city.given /\ Len(r.city.text) >= 2
    /\ \/ r.grid_size.kind \in {"absent", "blank"}
       \/ r.grid_size.kind = "int" /\ r.grid_size.n \in 1..55

\* The grid size the worker is started with.
GridOf(r) == IF r.grid_size.kind = "int" THEN r.grid_size.n ELSE 4

\* C14: a worker is spawned and a record is created only for a request whose
\* parameters are in order (grid_size being 4 when left out); any other
\* request, such as one with grid_size 0 or 56 or with a parameter missing,
\* is answered 400 'Paramètres invalides' with no worker spawned and no
\* record created.
C14_ValidatedBeforeSpawn ==
    /\ (gpc # "init" \/ proc # "unspawned" \/ DOMAIN jobStore # {}) =>
          /\ Acceptable(req)
          /\ Validation(mode, req).grid_size = GridOf(req)
    /\ (mode # None /\ ~Acceptable(req)) =>
          /\ response.code = 400
          /\ response.error = "Paramètres invalides"
          /\ hpc = "done"
          /\ gpc = "init" /\ proc = "unspawned" /\ DOMAIN jobStore = {}

\* A worker runs for a request whose grid_size is the upper limit.
C14_Witness ==
    /\ req.grid_size = GridInt(55)
    /\ proc = "alive"
    /\ jobId \in DOMAIN jobStore

\* C15: the first frame written on a streaming response is the job frame
\* with the job's id.  It is written once, after the job's record was
\* created and before stream() is first pulled; no ping and no frame of a
\* worker event precedes it.
C15_JobFrameFirst ==
    /\ frames # <<>> =>
          /\ frames[1] = JobFrame(jobId)
          /\ jobId \in DOMAIN jobStore
          /\ \A i \in 2..Len(frames) : frames[i].event # "job"
    /\ (mode = "stream" /\ hpc \in {"callback", "jobWrite"}) =>
          gpc = "init" /\ out = <<>>
    /\ (mode = "stream" /\ jobId # None /\ hpc # "callback" /\ frames = <<>>) =>
          ~connected

\* The job frame was followed by a ping and by the frame of a worker event.
C15_Witness ==
    /\ Len(frames) >= 3
    /\ frames[1] = JobFrame(jobId)
    /\ frames[2] = PingFrame
    /\ frames[3].event = "business"

\* The frame of a terminal event of the worker.
TerminalFrame(f) == f.event \in {"complete", "error"} /\ f.data.ts > 0

\* C16: once the streaming handler has received a terminal event no ping is
\* written any more: on the response no ping follows the frame of a terminal
\* event, however the timer's ticks fall around the write of that frame.
C16_NoPingAfterTerminal ==
    \A i, j \in 1..Len(frames) :
        (i < j /\ TerminalFrame(frames[i])) => frames[j] # PingFrame

\* The frames of worker events on the response, and the events they carry.
\* (The job frame, pings and the error frame of the catch carry no event of
\* the worker.)
EventFrames == SelectSeq(frames, LAMBDA f : f.data.ts > 0)
Forwarded == [i \in 1..Len(EventFrames) |-> EventFrames[i].data]

\* The events stream() has yielded that the loop body has been entered with.
Handled ==
    IF hpc = "pull" /\ cur.st = "value" THEN SubSeq(out, 1, Len(out) - 1) ELSE out

\* s up to and including its first terminal event.
UpToTerminal(s) ==
    LET T == {i \in 1..Len(s) : s[i].type \in {"complete", "error"}} IN
    IF T = {} THEN s
    ELSE SubSeq(s, 1, CHOOSE i \in T : \A k \in T : i <= k)

\* C17: on a streaming response the frames of worker events appear in the
\* order in which stream() yielded the events, each frame named after its
\* event's type, none twice and none after the first terminal event; while
\* the transport accepts writes every event up to and including the first
\* terminal one has its frame.  Pings fall between them and change nothing.
C17_FramesFollowEvents ==
    mode = "stream" =>
        /\ IsPrefix(Forwarded, UpToTerminal(out))
        /\ \A i \in 1..Len(EventFrames) :
               EventFrames[i].event = EventFrames[i].data.type
        /\ connected => Forwarded = UpToTerminal(Handled)

\* Two events were forwarded to a connected client with a ping between them,
\* the second one terminal, and a third event was yielded after it.
C17_Witness ==
    /\ connected
    /\ Len(Forwarded) = 2
    /\ Len(out) = 3
    /\ \E i, j, k \in 1..Len(frames) :
          /\ i < j /\ j < k
          /\ frames[i].event = "business"
          /\ frames[j] = PingFrame
          /\ frames[k].event = "complete"

\* A write of the streaming handler was rejected and its catch has run:
\* isComplete is set although no terminal event was recorded and stream()
\* has not thrown.
WriteFailureSeen ==
    /\ mode = "stream"
    /\ isComplete
    /\ jobStore[jobId].status = "running"
    /\ hpc # "errorWrite"

\* This step calls streamWriter.write: for the job frame, an event's frame,
\* the error frame of the catch, or a ping.
WriteInitiated ==
    \/ hpc' # hpc /\ hpc' \in {"jobWrite", "eventWrite", "errorWrite"}
    \/ ticks' # ticks /\ ~isComplete

\* C18: after a write on the streaming response has failed the handler
\* initiates no further write (no ping, no frame of a worker event, no other
\* frame), the timer's next callback cancels the timer, and the loop leaves
\* at the next event.
C18_NoWriteAfterFailure ==
    [][WriteFailureSeen =>
         /\ ~WriteInitiated
         /\ ticks' # ticks => ~heartbeatInterval'
         /\ (hpc = "pull" /\ cur.st = "value" /\ cur' # cur) =>
               hpc' = "done" /\ ~heartbeatInterval']_vars

\* stream() yielded an `error` event with message m.
ErrorYielded(m) ==
    \E i \in 1..Len(out) : out[i].type = "error" /\ out[i].message = m

\* This step runs the catch of a rejected write (scrape.ts:81-84): after the
\* write of the job frame or of an event's frame, or after a ping.
WriteFailureCaught ==
    \/ wres = "fail" /\ wres' = None
    \/ hbFail /\ ~hbFail'

\* The write that has settled was that of a frame whose content the handler
\* records once it is written: a terminal event of the worker (scrape.ts:
\* 114-140) or the exception stream() threw (scrape.ts:146-152).
RecordedFrame ==
    \/ hpc = "eventWrite" /\ cur.v.type \in {"complete", "error"}
    \/ hpc = "errorWrite"

\* C19: a write failure on the streaming response is never recorded as a
\* failure of the job.  The step that handles a rejected write leaves the
\* registry as it is (unless the frame was that of a terminal event or of an
\* exception, which is then recorded as after an accepted write), and a
\* streaming job's record has status error only with the message of an
\* `error` event the worker sent or of the exception stream() threw.
C19_WriteFailureNotRecorded ==
    /\ [][(mode = "stream" /\ WriteFailureCaught /\ ~RecordedFrame) =>
             jobStore' = jobStore]_vars
    /\ [](mode = "stream" =>
            \A j \in DOMAIN jobStore :
                jobStore[j].status = "error" =>
                    \/ ErrorYielded(jobStore[j].error)
                    \/ gpc = "done" /\ proc = "unspawned"
                         /\ jobStore[j].error = SpawnMsg)

\* The client went away during the run: a write was rejected, the loop left
\* at the next event, and the job's record still says running.
C19_Witness ==
    /\ mode = "stream"
    /\ hpc = "done"
    /\ ~connected
    /\ isComplete
    /\ Len(out) >= 2
    /\ jobStore[jobId].status = "running"

\* C20: no handler ever terminates the worker.  Whatever happens to the
\* request (the client disconnects, a write fails, the loop is left early,
\* the delivery to the webhook fails) no SIGTERM is sent and the service
\* keeps the handle of the process it spawned: the worker runs until it
\* exits by itself.
C20_WorkerNeverStopped ==
    /\ kills = 0
    /\ proc # "unspawned" => svcProcess

\* The streaming handler has left its loop after the client went away, and
\* the worker is still running.
C20_Witness ==
    /\ mode = "stream"
    /\ hpc = "done"
    /\ ~connected
    /\ gpc = "done"
    /\ proc = "alive" /\ sigs = {}
    /\ kills = 0

-----------------------------------------------------------------------------
(* Properties of the streaming handler's records and of its end *)

\* The payloads of the business events of s, in order.
Payloads(s) ==
    LET b == SelectSeq(s, LAMBDA e : e.type = "business" /\ e.data # None) IN
    [i \in 1..Len(b) |-> b[i].data]

\* The step in which the loop body, having written the frame of the event it
\* holds, goes on after the write (scrape.ts:112-114).
BodyHandles(type) ==
    /\ mode = "stream"
    /\ hpc = "eventWrite" /\ hpc' = "pull"
    /\ cur.v.type = type

\* C21: when the streaming handler handles a `complete` event the job's
\* record becomes completed, with the stats of the event and with the
\* business list the event declares when it declares one (an empty one
\* included), and otherwise with the payloads of the business events the
\* handler has received, in arrival order.
C21_CompleteRecorded ==
    [][BodyHandles("complete") =>
         LET e == cur.v
             r == jobStore'[jobId]
         IN /\ r.status = "completed"
            /\ r.error = None
            /\ r.result.present
            /\ r.result.stats = e.stats
            /\ r.result.businesses =
                 IF e.declared THEN e.businesses ELSE Payloads(out)]_vars

\* A business event was received and then a complete event declaring an
\* empty list: the record has the empty list.
C21_Witness ==
    /\ mode = "stream"
    /\ Len(out) = 2
    /\ out[1].type = "business"
    /\ out[2].type = "complete" /\ out[2].declared /\ out[2].businesses = <<>>
    /\ hBusinesses = <<"A">>
    /\ jobStore[jobId].status = "completed"
    /\ jobStore[jobId].result.businesses = <<>>

\* C22: when the streaming handler handles an `error` event of the worker,
\* the frame of that event, with its message, has been written to the client
\* (if it is still there) and the job's record becomes status error with the
\* message; when stream() throws, the handler writes an error frame with the
\* exception's message and records status error with it.
C22_ErrorForwardedAndRecorded ==
    /\ [][BodyHandles("error") =>
            /\ jobStore'[jobId].status = "error"
            /\ jobStore'[jobId].error = cur.v.message
            /\ wres = "ok" =>
                  \E i \in 1..Len(frames) :
                      frames[i] = formatSSE("error", cur.v)]_vars
    /\ [][(mode = "stream" /\ hpc = "pull" /\ cur.st = "throw" /\ cur' # cur) =>
            /\ hpc' = "errorWrite"
            /\ connected => frames' = Append(frames, ErrorFrame(SpawnMsg))]_vars
    /\ [][(mode = "stream" /\ hpc = "errorWrite" /\ hpc' # hpc) =>
            /\ jobStore'[jobId].status = "error"
            /\ jobStore'[jobId].error = SpawnMsg]_vars

\* The worker's error event reached a connected client and was recorded.
C22_Witness ==
    /\ mode = "stream"
    /\ connected
    /\ \E i \in 1..Len(frames) :
          frames[i].event = "error" /\ frames[i].data.message = "boom"
    /\ jobStore[jobId].status = "error"
    /\ jobStore[jobId].error = "boom"

\* C23: after the streaming handler has forwarded a terminal event no
\* further event of the worker is delivered: no frame of a worker event
\* follows the frame of a terminal event, and once the record is terminal no
\* later event changes it.
C23_NothingAfterTerminal ==
    /\ [](mode = "stream" =>
            \A i, j \in 1..Len(frames) :
                (i < j /\ TerminalFrame(frames[i])) => frames[j].data.ts = 0)
    /\ [][(mode = "stream" /\ jobId \in DOMAIN jobStore
             /\ jobStore[jobId].status # "running") =>
            jobStore' = jobStore]_vars

\* The worker wrote a complete event and then an error event; the handler
\* took both from stream() and left its loop at the second, with the client
\* still connected and the record completed.
C23_Witness ==
    /\ mode = "stream"
    /\ connected
    /\ hpc = "done"
    /\ Len(out) = 3
    /\ out[2].type = "complete" /\ out[3].type = "error"
    /\ Len(Forwarded) = 2
    /\ jobStore[jobId].status = "completed"

\* The streaming handler has handled a terminal event: its frame was written
\* and the event is recorded.
TerminalHandled ==
    /\ mode = "stream"
    /\ jobId \in DOMAIN jobStore
    /\ jobStore[jobId].status # "running"

\* C24: after a terminal event of the worker has been forwarded to a
\* streaming client the response ends: the handler returns because of the
\* terminal event itself, whether or not the worker writes another line or
\* exits.
C24_StreamEndsAtTerminal == TerminalHandled ~> hpc = "done"

\* The worker has written a `complete` event.
CompleteEmitted == \E i \in 1..Len(arrived) : arrived[i].type = "complete"

\* The worker has written a `complete` event and no `error` event before it.
CompleteEmittedFirst ==
    \E i \in 1..Len(arrived) :
        /\ arrived[i].type = "complete"
        /\ \A k \in 1..(i - 1) : arrived[k].type # "error"

\* The client has the job frame, then the frames of the worker's events up
\* to a `complete` event, none missing, and the record is completed.
CompleteDelivered ==
    /\ frames # <<>> /\ frames[1] = JobFrame(jobId)
    /\ Forwarded # <<>>
    /\ Forwarded[Len(Forwarded)].type = "complete"
    /\ Forwarded = SubSeq(arrived, 1, Len(Forwarded))
    /\ jobStore[jobId].status = "completed"

\* C25 as stated: if the worker emits a `complete` event and the transport
\* never fails, the client eventually receives the `complete` frame, after
\* the job frame and all earlier worker events, and the record eventually
\* becomes completed.
C25_CompleteDelivered ==
    (mode = "stream" /\ CompleteEmitted) ~> (CompleteDelivered \/ ~connected)

\* C25, amended: the same for a `complete` event that no `error` event
\* precedes.
C25_FirstCompleteDelivered ==
    (mode = "stream" /\ CompleteEmittedFirst) ~> (CompleteDelivered \/ ~connected)

\* The complete event came after a business event and a ping, and was
\* delivered to a connected client.
C25_Witness ==
    /\ mode = "stream"
    /\ connected
    /\ CompleteDelivered
    /\ Len(Forwarded) = 2
    /\ \E i \in 1..Len(frames) : frames[i] = PingFrame


-----------------------------------------------------------------------------
(* ScraperService.scrape: the result of a drained sequence *)

\* The for await loop of scrape() has ended and the result is being built.
ScrapeReturns ==
    /\ mode \in {"sync", "webhook"}
    /\ hpc = "pull"
    /\ cur.st \in {"end", "throw"}

\* The events of type t among those scrape() drained.
Drained(t) == { i \in 1..Len(out) : out[i].type = t }

\* C26: scrape() reports success = true exactly when the drained sequence
\* holds no error event and at least one business record was accumulated.
C26_SuccessIffNoErrorAndBusiness ==
    ScrapeReturns =>
        (ScraperResult.success <=>
            (Drained("error") = {} /\ Drained("business") # {}))


\* The stats scrape() holds after the drained events: those of the last
\* complete event, none when there is no complete event.
DrainedStats ==
    IF Drained("complete") = {} THEN None
    ELSE out[CHOOSE i \in Drained("complete") :
                 \A j \in Drained("complete") : j <= i].stats

\* POST / answers: the step in which the handler returns its response.
SyncAnswers == mode = "sync" /\ hpc = "pull" /\ hpc' = "done"

\* C27: the business list scrape() returns is the payloads of the business
\* events in the order the worker wrote them, whatever list the complete
\* event carries, and its stats are those of the complete event; the success
\* response of POST / carries that list and those stats.
C27_ListInArrivalOrder ==
    /\ [](ScrapeReturns =>
            /\ ScraperResult.businesses = Payloads(out)
            /\ cur.st = "end" => ScraperResult.businesses = Payloads(arrived)
            /\ ScraperResult.stats = DrainedStats)
    /\ [][SyncAnswers /\ response'.code = 200 =>
            /\ response'.businesses = Payloads(out)
            /\ response'.stats = DrainedStats]_vars

\* POST / has answered [A, B] after business(A), business(B) and a complete
\* event that lists [A, B].
C27_Witness ==
    /\ mode = "sync"
    /\ hpc = "done"
    /\ Len(out) = 3
    /\ out[1].data = "A"
    /\ out[2].data = "B"
    /\ out[3].type = "complete"
    /\ out[3].businesses = <<"A", "B">>
    /\ response.code = 200
    /\ response.businesses = <<"A", "B">>
    /\ response.stats = "S"


\* C28: draining a sequence that holds an error event and no business event,
\* scrape() returns success = false, the message of an error event as its
\* error and an empty business list, and does not throw.
C28_ErrorOnlyDrain ==
    (ScrapeReturns /\ Drained("error") # {} /\ Drained("business") = {}) =>
        /\ ~ScrapeThrows
        /\ ~ScraperResult.success
        /\ ScraperResult.businesses = <<>>
        /\ \E i \in Drained("error") : ScraperResult.error = out[i].message


\* The worker was launched and has exited, having written neither a complete
\* nor an error event.
ExitedWithoutTerminal ==
    /\ proc = "alive"
    /\ "close" \in sigs
    /\ \A i \in 1..Len(arrived) : arrived[i].type \notin {"complete", "error"}

\* C29: when the worker exits without a complete or an error event, the
\* sequence ends normally and scrape() returns, without throwing, a result
\* that has no error and lists the businesses the worker wrote.
C29_SilentExitTolerated ==
    (ScrapeReturns /\ ExitedWithoutTerminal) =>
        /\ cur.st = "end"
        /\ ~ScrapeThrows
        /\ ScraperResult.error = None
        /\ ScraperResult.businesses = Payloads(arrived)

\* scrape() returns after a worker that wrote one business and exited.
C29_Witness ==
    /\ ScrapeReturns
    /\ ExitedWithoutTerminal
    /\ Len(arrived) = 1
    /\ ScraperResult.businesses = <<"A">>
    /\ ScraperResult.success


-----------------------------------------------------------------------------
(* POST /webhook: the acknowledgement *)

\* POST /webhook has answered the caller with the job id.
Acknowledged == mode = "webhook" /\ response = AckResponse(jobId)

\* C30: POST /webhook answers with the job id as soon as it has accepted the
\* request: the answer is there whenever the job is, it is produced while
\* the job is running and before any line or signal of the worker and any
\* outbound call, and an outbound call is made only after it.
C30_AckBeforeWork ==
    /\ []((mode = "webhook" /\ jobId \in DOMAIN jobStore) => Acknowledged)
    /\ [][(mode' = "webhook" /\ response'.code = 200 /\ response' # response) =>
            /\ Acknowledged'
            /\ jobStore'[jobId'].status = "running"
            /\ arrived' = <<>>
            /\ sigs' = {}
            /\ webhookCalls' = <<>>]_vars
    /\ []((mode = "webhook" /\ webhookCalls # <<>>) => Acknowledged)

\* The caller has its answer while the worker runs and has written nothing.
C30_Witness ==
    /\ Acknowledged
    /\ jobStore[jobId].status = "running"
    /\ proc = "alive"
    /\ arrived = <<>>
    /\ sigs = {}
    /\ webhookCalls = <<>>


-----------------------------------------------------------------------------
(* Authentication of /api/scrape *)

\* The key a request carries: the X-API-Key header if it holds a key,
\* otherwise the Bearer token of Authorization, otherwise the api_key query
\* parameter; None when none of them holds a key.
KeyExamined(cr) ==
    IF cr.xApiKey \notin {None, ""} THEN cr.xApiKey
    ELSE IF cr.authorization.scheme = "Bearer" THEN cr.authorization.rest
    ELSE IF cr.api_key \notin {None, ""} THEN cr.api_key
    ELSE None

\* The request has had no effect on the registry or on a worker.
NoEffect ==
    /\ mode = None
    /\ jobStore = EmptyStore
    /\ proc = "unspawned"
    /\ spawns = 0

\* C31: with API keys configured, a request reaches its handler only when
\* the key it carries (X-API-Key, else the Bearer token, else api_key) is a
\* configured one; without a key it is answered 401, with a key that is not
\* configured 403, in both cases with no job and no worker; when no key is
\* configured every request passes.
C31_OnlyConfiguredKeysPass ==
    LET keys == getApiKeys(auth.env)
        k == KeyExamined(auth.cred)
    IN  /\ (Len(keys) > 0 /\ ~NoEffect) => Includes(keys, k)
        /\ (Len(keys) > 0 /\ auth.verdict # None /\ k = None) =>
              (response.code = 401 /\ hpc = "done" /\ NoEffect)
        /\ (Len(keys) > 0 /\ auth.verdict # None /\ k # None
                /\ ~Includes(keys, k)) =>
              (response.code = 403 /\ hpc = "done" /\ NoEffect)
        /\ (Len(keys) = 0 /\ auth.verdict # None) => auth.verdict = "pass"

\* A request whose only key is the Bearer token, the second of two
\* configured keys, has created its job and called spawn().
C31_Witness ==
    /\ auth.env = <<"k1", "", "k2">>
    /\ auth.cred.xApiKey = None
    /\ auth.cred.authorization = [scheme |-> "Bearer", rest |-> "k1"]
    /\ auth.cred.api_key = "bad"
    /\ jobId \in DOMAIN jobStore
    /\ spawns = 1


-----------------------------------------------------------------------------
(* GET /:jobId and the lifetime of a record *)

\* C32: a record of the registry is never removed and never replaced by a
\* fresh one; a lookup finds every id created so far and answers with its
\* current status, answers 404 for an id that was not created, and leaves
\* the registry as it is.
C32_RecordsStayAndLookupsRead ==
    /\ [][/\ DOMAIN jobStore \subseteq DOMAIN jobStore'
          /\ \A j \in DOMAIN jobStore :
               /\ jobStore'[j].startedAt = jobStore[j].startedAt
               /\ jobStore[j].status # "running" =>
                      jobStore'[j].status # "running"]_vars
    /\ [][lookup' # lookup =>
            /\ jobStore' = jobStore
            /\ lookup'.code = (IF lookup'.id \in DOMAIN jobStore THEN 200 ELSE 404)
            /\ lookup'.code = 200 =>
                   lookup'.status = jobStore[lookup'.id].status]_vars
    /\ [](lookup.code = 200 => lookup.id \in DOMAIN jobStore)
    /\ [](lookup.id \in UnknownIds => lookup.code = 404)

\* A lookup made after the job's terminal write has answered with the
\* completed status.
C32_Witness ==
    /\ lookup.id = jobId
    /\ lookup.code = 200
    /\ lookup.status = "completed"
    /\ jobStore[jobId].status = "completed"


-----------------------------------------------------------------------------
(* One worker for one job *)

\* A step in which the worker of the request is heard or its events are
\* handled.
WorkerStep ==
    \/ arrived' # arrived
    \/ sigs' # sigs
    \/ out' # out
    \/ cur' # cur

\* C33: a request that is accepted calls spawn() once and never again, and a
\* worker is spawned only for an accepted request; what the worker writes
\* and signals reaches the record of that job alone.
C33_OneWorkerPerJob ==
    /\ [](spawns <= 1)
    /\ [](jobId \notin DOMAIN jobStore => (spawns = 0 /\ proc = "unspawned"))
    /\ []((jobId \in DOMAIN jobStore /\ (gpc # "init" \/ hpc = "done")) =>
             spawns = 1)
    /\ [][WorkerStep =>
            \A j \in DOMAIN jobStore \ {jobId} : jobStore'[j] = jobStore[j]]_vars

\* The job has ended with its one worker, while another job is in the
\* registry.
C33_Witness ==
    /\ jobId \in DOMAIN jobStore
    /\ jobStore[jobId].status = "completed"
    /\ DOMAIN jobStore # {jobId}
    /\ "close" \in sigs
    /\ spawns = 1


-----------------------------------------------------------------------------
(* ScraperService.stop *)

\* C34: stop() is idempotent.  From every state of the service a second call
\* leaves what the first call left and sends no further SIGTERM; one call
\* sends at most one; with no handle held (nothing started, or stopped
\* before) a call sends nothing and changes nothing but isRunning; over a
\* whole run no more SIGTERMs are sent than workers were spawned.
C34_StopIdempotent ==
    LET once == stopped(ServiceState)
        twice == stopped(once)
    IN  /\ twice = once
        /\ once.kills <= kills + 1
        /\ ~svcProcess => (once.kills = kills /\ ~once.process)
        /\ (~svcProcess /\ ~isRunning) => once = ServiceState
        /\ kills <= spawns

\* stop() has been called on a live worker: one SIGTERM was sent and the
\* handle is forgotten, so that a further call finds nothing to stop.
C34_Witness ==
    /\ proc = "alive"
    /\ "close" \notin sigs
    /\ kills = 1
    /\ ~svcProcess
    /\ ~isRunning


-----------------------------------------------------------------------------
(* The end of a job *)

\* C35: once the worker of a job has exited, the job's record eventually
\* leaves the running state.
C35_JobLeavesRunning ==
    (jobId \in DOMAIN jobStore /\ "close" \in sigs)
        ~> (jobId \in DOMAIN jobStore /\ jobStore[jobId].status # "running")


-----------------------------------------------------------------------------
(* scrape() as a function of the drained sequence *)

\* scraper.ts:147-149: the locals of scrape() before the loop.
ScrapeStart == [businesses |-> <<>>, stats |-> None, error |-> None]

\* scraper.ts:153-161: the loop body for the event e.
ScrapeStep(acc, e) ==
    [businesses |-> IF e.type = "business" /\ e.data # None
                    THEN Append(acc.businesses, e.data) ELSE acc.businesses,
     stats |-> IF e.type = "complete" /\ e.stats # None THEN e.stats ELSE acc.stats,
     error |-> IF e.type = "error" THEN e.message ELSE acc.error]

RECURSIVE ScrapeFold(_, _)
\* scraper.ts:152-165: the loop over the sequence s.
ScrapeFold(acc, s) ==
    IF s = <<>> THEN acc ELSE ScrapeFold(ScrapeStep(acc, Head(s)), Tail(s))

\* scraper.ts:147-178: the result of scrape() for a sequence that ends
\* normally.
Aggregate(s) ==
    LET a == ScrapeFold(ScrapeStart, s) IN
    [success |-> ~Truthy(a.error) /\ Len(a.businesses) > 0,
     stats |-> a.stats,
     businesses |-> a.businesses,
     error |-> IF Truthy(a.error) THEN a.error ELSE None]

\* C36: the result of scrape() is the result for the events up to and
\* including the first terminal event; what the worker writes after it
\* changes neither the businesses, the stats, the error nor success.
C36_ResultFixedAtTerminal ==
    (ScrapeReturns /\ cur.st = "end") =>
        ScraperResult = Aggregate(UpToTerminal(out))


-----------------------------------------------------------------------------
(* The waiter of the bridge *)

\* The line the worker writes in this step, when it writes one.
Arriving == arrived'[Len(arrived')]

\* C37: the bridge has at most one waiter, the promise its generator is
\* suspended on; a waiter is registered only while the buffer is empty; an
\* event that arrives while a waiter is registered is handed to it, is not
\* put in the buffer and clears the waiter; an event that arrives with no
\* waiter is appended to the tail of the buffer.
C37_SingleWaiterHandoff ==
    /\ [](resolveNext => (gpc = "await" /\ promise = Rpending))
    /\ [](resolveNext => eventQueue = <<>>)
    /\ [][(arrived' # arrived /\ ~HandlerThrows(Arriving) /\ resolveNext) =>
            /\ promise' = Rvalue(Arriving)
            /\ eventQueue' = eventQueue
            /\ ~resolveNext']_vars
    /\ [][(arrived' # arrived /\ ~HandlerThrows(Arriving) /\ ~resolveNext) =>
            /\ eventQueue' = Append(eventQueue, Arriving)
            /\ promise' = promise
            /\ ~resolveNext']_vars

\* One event was handed to the waiter and, before the generator went on, a
\* second one arrived and was buffered.
C37_Witness ==
    /\ Len(arrived) = 2
    /\ gpc = "await"
    /\ ~resolveNext
    /\ promise.st = "value"
    /\ promise.v = arrived[1]
    /\ eventQueue = <<arrived[2]>>


-----------------------------------------------------------------------------
(* What a completed record holds *)

\* C38: a record is completed only with the stats of a complete event its
\* worker wrote; without such an event no record is completed.
C38_CompletedHasStats ==
    (jobId \in DOMAIN jobStore /\ jobStore[jobId].status = "completed") =>
        /\ jobStore[jobId].result.stats # None
        /\ \E i \in 1..Len(arrived) :
             /\ arrived[i].type = "complete"
             /\ arrived[i].stats = jobStore[jobId].result.stats


\* C39: for a sequence of worker events that ends in a complete event, the
\* streaming handler stores the business list and the stats that scrape(),
\* and with it POST / and POST /webhook, stores for the same sequence.
C39_AdaptersAgree ==
    (mode = "stream" /\ jobId \in DOMAIN jobStore
        /\ jobStore[jobId].status = "completed") =>
        LET a == Aggregate(UpToTerminal(out)) IN
        /\ jobStore[jobId].result.businesses = a.businesses
        /\ jobStore[jobId].result.stats = a.stats


-----------------------------------------------------------------------------
(* The end of the heartbeat *)

\* A ping is written in this step.
PingWritten ==
    /\ Len(frames') = Len(frames) + 1
    /\ frames'[Len(frames')] = PingFrame

\* The handler has a reason to end the heartbeat: a terminal event has been
\* processed, a failed write has been caught, or the worker has exited and
\* the bridge is drained.
HeartbeatDue ==
    /\ mode = "stream"
    /\ jobId \in DOMAIN jobStore
    /\ \/ jobStore[jobId].status # "running"
       \/ isComplete
       \/ "close" \in sigs /\ gpc = "done"

\* C40: the heartbeat timer of a streaming request is cleared eventually
\* once a terminal event has been processed, a write has failed or the
\* worker has exited and the bridge is drained; a cleared timer is not set
\* again and writes no ping; and the handler does not finish with its timer
\* set.
C40_HeartbeatCancelled ==
    /\ HeartbeatDue ~> ~heartbeatInterval
    /\ [][PingWritten => (heartbeatInterval /\ ~isComplete)]_vars
    /\ [][heartbeatInterval' => (heartbeatInterval \/ hpc = "callback")]_vars
    /\ []((mode = "stream" /\ hpc = "done") => ~heartbeatInterval)

\* After a failed write the timer's own callback has cleared the timer,
\* while the handler still waits for the worker.
C40_Witness ==
    /\ mode = "stream"
    /\ hpc = "pull"
    /\ gpc = "await"
    /\ isComplete
    /\ ~connected
    /\ ticks > 0
    /\ ~heartbeatInterval

=============================================================================
